---- MODULE Spec2Model ----
(***************************************************************************)
(* Static site generator of rw_gh-docs: configuration loading, tree        *)
(* builder, path mapper, navigation renderer and render pipeline, in the   *)
(* header/footer variant (main2.cpp, main3.cpp), the template variant      *)
(* (main4) and the template variant with asset management (main5).         *)
(*                                                                         *)
(* Representation.  A std::string and a file name are sequences of         *)
(* one-character strings; an fs::path is the sequence of its components    *)
(* (the empty path is << >>); the HTML of the navigation is the sequence   *)
(* of the elements generateNavHtml appends.                                *)
(***************************************************************************)
EXTENDS Integers, Sequences, FiniteSets, TLC

VARIABLES
  variant,     \* which generator runs: "headerfooter", "template", "assets"
  pc,          \* position of main
  cfgFile,     \* the lines of the configuration file main was given
  cfg,         \* Config, as parseConfig returned it
  fsys,        \* the content root: directory path -> set of entries
  rootNode,    \* DirNode tree built by buildTree
  outFS,       \* the directory cfg.outputDir: path -> entry
  removed,     \* the paths fs::remove_all deleted (its return value counts them)
  work,        \* what processFiles still has to do, in call order
  navHtml,     \* navigation markup of the file being processed
  log,         \* lines printed to stdout / stderr, in order
  exitCode,    \* return value of main
  sourceFile,  \* Path Mapper: argument of getTargetFilename
  targetFile,  \* Path Mapper: results of getTargetFilename, latest last
  currentPath, \* Path Mapper: directory buildTree is scanning (below the root)
  relPath,     \* Path Mapper: DirNode::relativePath computed for it
  backPrefix   \* Path Mapper: result of getBackPrefix

vars == <<variant, pc, cfgFile, cfg, fsys, rootNode, outFS, removed, work,
          navHtml, log, exitCode, sourceFile, targetFile, currentPath, relPath,
          backPrefix>>

runVars == <<variant, pc, cfgFile, cfg, fsys, rootNode, outFS, removed, work,
             navHtml, log, exitCode>>

pathVars == <<sourceFile, targetFile, currentPath, relPath, backPrefix>>

----------------------------------------------------------------------------
(* Bounds of the model *)

\* deepest directory nesting below the content root
MaxDepth == 2

\* most subdirectories (at any depth) a content root holds
MaxDirs == 2

\* most regular files a content root holds
MaxFiles == 3

\* most recognised keys a configuration file leaves out
MaxMissing == 1

\* most per-file failures (template engine, page write) injected into one run
MaxFaults == 1

\* longest file name the Path Mapper is applied to
MaxNameLen == 4

----------------------------------------------------------------------------
(* Strings *)

\* byte value of the characters that occur in the model's names
CharCode == [c \in {".", "/", "G", "H", "S", "a", "b", "c", "d", "h", "l", "m", "t"} |->
               CASE c = "." -> 46 [] c = "/" -> 47 [] c = "G" -> 71
                 [] c = "H" -> 72 [] c = "S" -> 83 [] c = "a" -> 97
                 [] c = "b" -> 98 [] c = "c" -> 99 [] c = "d" -> 100
                 [] c = "h" -> 104 [] c = "l" -> 108 [] c = "m" -> 109
                 [] c = "t" -> 116]

\* std::string operator< : lexicographic on bytes
RECURSIVE StrLess(_, _)
StrLess(a, b) ==
  IF b = << >> THEN FALSE
  ELSE IF a = << >> THEN TRUE
  ELSE IF CharCode[Head(a)] < CharCode[Head(b)] THEN TRUE
  ELSE IF CharCode[Head(a)] > CharCode[Head(b)] THEN FALSE
  ELSE StrLess(Tail(a), Tail(b))

Dot == <<".">>
DotDot == <<".", ".">>
ExtMd == <<".", "m", "d">>
ExtHtm == <<".", "h", "t", "m">>
ExtHtml == <<".", "h", "t", "m", "l">>
UpSegment == <<".", ".", "/">>

\* position of the last "." of a file name, 0 if there is none
RECURSIVE LastDot(_, _)
LastDot(f, i) ==
  IF i = 0 THEN 0
  ELSE IF f[i] = "." THEN i
  ELSE LastDot(f, i - 1)

\* fs::path::extension() of a single file name: from the last dot on; none for
\* ".", ".." and for a name whose only dot is its first character
extension(f) ==
  LET k == LastDot(f, Len(f))
  IN IF f = Dot \/ f = DotDot \/ k <= 1 THEN << >>
     ELSE SubSeq(f, k, Len(f))

\* fs::path::stem(): the file name without its extension()
stem(f) == SubSeq(f, 1, Len(f) - Len(extension(f)))

\* fs::path::replace_extension(ext)
replace_extension(f, ext) == stem(f) \o ext

\* fs::path::generic_string(): the components joined by '/'
RECURSIVE generic_string(_)
generic_string(p) ==
  IF p = << >> THEN << >>
  ELSE IF Len(p) = 1 THEN p[1]
  ELSE p[1] \o <<"/">> \o generic_string(Tail(p))

----------------------------------------------------------------------------
(* Path Mapper *)

\* a mapper that rewrites whatever extension the name has
getTargetFilename_AnyExtension(sourceFileArg) ==
  IF extension(sourceFileArg) # << >>
  THEN replace_extension(sourceFileArg, ExtHtml)
  ELSE sourceFileArg

\* a mapper that turns ".htm" into ".html" as well
getTargetFilename_HtmToo(sourceFileArg) ==
  IF extension(sourceFileArg) \in { ExtMd, ExtHtm }
  THEN replace_extension(sourceFileArg, ExtHtml)
  ELSE sourceFileArg

getTargetFilename(sourceFileArg) ==
  IF extension(sourceFileArg) = ExtMd
  THEN replace_extension(sourceFileArg, ExtHtml)
  ELSE sourceFileArg

\* a prefix that climbs one level whatever the depth
getBackPrefix_OneLevel(currentRelPath) ==
  IF currentRelPath = << >> THEN << >> ELSE UpSegment

\* one "../" per element the path iteration yields
RECURSIVE getBackPrefix(_)
getBackPrefix(currentRelPath) ==
  IF currentRelPath = << >> THEN << >>
  ELSE UpSegment \o getBackPrefix(Tail(currentRelPath))

\* fs::relative(currentPath, rootPath) for a directory at or below the root:
\* "." for the root itself, else the components below the root
relative(cur, root) ==
  IF cur = root THEN <<Dot>>
  ELSE SubSeq(cur, Len(root) + 1, Len(cur))

\* relativePath without the "." special case
relativePathOf_KeepsDot(cur, root) == relative(cur, root)

\* DirNode::relativePath as buildTree sets it: relative(), with "." made ""
relativePathOf(cur, root) ==
  IF relative(cur, root) = <<Dot>> THEN << >> ELSE relative(cur, root)

----------------------------------------------------------------------------
(* The content root on disk *)

\* the input folder main is given (argv[2])
InputDir == << <<"i", "n">> >>

Level1Names == { <<"G">>, <<"H">> }
DeepNames == { <<"S">> }
FileNames == { <<"a", ".", "m", "d">>, <<"b", ".", "m", "d">>,
               <<"a", ".", "h", "t", "m">> }

\* directory paths below the root with exactly k components
RECURSIVE DirsAt(_)
DirsAt(k) ==
  IF k = 0 THEN { << >> }
  ELSE IF k = 1 THEN { <<n>> : n \in Level1Names }
  ELSE { Append(d, n) : d \in DirsAt(k - 1), n \in DeepNames }

DirUniverse == UNION { DirsAt(k) : k \in 1..MaxDepth }

PrefixClosed(D) ==
  \A d \in D : Len(d) > 1 => SubSeq(d, 1, Len(d) - 1) \in D

DirSets ==
  { D \in SUBSET DirUniverse : Cardinality(D) <= MaxDirs /\ PrefixClosed(D) }

\* a content root: its directories, its regular files and its other entries
\* (none here), as full paths
FileSystems ==
  UNION { { [dirs  |-> { InputDir \o d : d \in D \cup { << >> } },
             files |-> F, others |-> {}] :
            F \in { X \in SUBSET { InputDir \o d \o <<f>> :
                                     d \in D \cup { << >> }, f \in FileNames } :
                      Cardinality(X) <= MaxFiles } } :
          D \in DirSets }

NoFileSystem == [dirs |-> {}, files |-> {}, others |-> {}]

parent_path(p) == SubSeq(p, 1, Len(p) - 1)
filename(p) == p[Len(p)]

\* the entries of directory cur: what fs::directory_iterator yields
DirEntries(fs, cur) ==
  { [path |-> p, is_directory |-> TRUE, is_regular_file |-> FALSE] :
      p \in { d \in fs.dirs : Len(d) = Len(cur) + 1 /\ parent_path(d) = cur } }
  \cup
  { [path |-> p, is_directory |-> FALSE, is_regular_file |-> TRUE] :
      p \in { f \in fs.files : Len(f) = Len(cur) + 1 /\ parent_path(f) = cur } }
  \cup
  { [path |-> p, is_directory |-> FALSE, is_regular_file |-> FALSE] :
      p \in { o \in fs.others : Len(o) = Len(cur) + 1 /\ parent_path(o) = cur } }

\* the orders in which the operating system may hand out a directory's entries
IterOrders == { "ascending", "descending" }

RECURSIVE directory_iterator(_, _)
directory_iterator(S, ord) ==
  IF S = {} THEN << >>
  ELSE LET e == CHOOSE x \in S : \A y \in S \ {x} :
                  IF ord = "ascending"
                  THEN StrLess(filename(x.path), filename(y.path))
                  ELSE StrLess(filename(y.path), filename(x.path))
       IN <<e>> \o directory_iterator(S \ {e}, ord)

----------------------------------------------------------------------------
(* Tree Builder *)

\* a filter that keeps ".htm" and ".md" in every variant
AcceptedExt_HtmEverywhere(v) == { ExtHtm, ExtMd }

\* extensions buildTree keeps
AcceptedExt(v) ==
  IF v = "headerfooter" THEN { ExtHtm, ExtMd } ELSE { ExtMd }

\* std::ranges::sort(node.files): insertion of one name into a sorted sequence
RECURSIVE InsertFile(_, _)
InsertFile(sorted, f) ==
  IF sorted = << >> THEN <<f>>
  ELSE IF StrLess(f, Head(sorted)) THEN <<f>> \o sorted
  ELSE <<Head(sorted)>> \o InsertFile(Tail(sorted), f)

\* files left in the order the directory iterator gave them
SortFiles_Unsorted(fs) == fs

RECURSIVE SortFiles(_)
SortFiles(fs) ==
  IF fs = << >> THEN << >>
  ELSE InsertFile(SortFiles(Tail(fs)), Head(fs))

\* std::ranges::sort(node.subdirs, {}, &DirNode::dirName)
RECURSIVE InsertSubdir(_, _)
InsertSubdir(sorted, n) ==
  IF sorted = << >> THEN <<n>>
  ELSE IF StrLess(n.dirName, Head(sorted).dirName) THEN <<n>> \o sorted
  ELSE <<Head(sorted)>> \o InsertSubdir(Tail(sorted), n)

RECURSIVE SortSubdirs(_)
SortSubdirs(ns) ==
  IF ns = << >> THEN << >>
  ELSE InsertSubdir(SortSubdirs(Tail(ns)), Head(ns))

RECURSIVE buildTree(_, _, _, _, _)
RECURSIVE scanEntries(_, _, _, _, _, _)
\* the loop over the directory entries: push_back in iteration order
scanEntries(fs, entries, rootPath, v, ord, node) ==
  IF entries = << >> THEN node
  ELSE LET entry == Head(entries)
           next == IF entry.is_directory
                   THEN [node EXCEPT !.subdirs =
                           Append(@, buildTree(fs, entry.path, rootPath, v, ord))]
                   ELSE IF entry.is_regular_file
                           /\ extension(filename(entry.path)) \in AcceptedExt(v)
                   THEN [node EXCEPT !.files = Append(@, filename(entry.path))]
                   ELSE node
       IN scanEntries(fs, Tail(entries), rootPath, v, ord, next)

buildTree(fs, curPath, rootPath, v, ord) ==
  LET node == [dirName      |-> filename(curPath),
               relativePath |-> relativePathOf(curPath, rootPath),
               files        |-> << >>,
               subdirs      |-> << >>]
      scanned == scanEntries(fs, directory_iterator(DirEntries(fs, curPath), ord),
                             rootPath, v, ord, node)
  IN [scanned EXCEPT !.subdirs = SortSubdirs(@), !.files = SortFiles(@)]

NoNode == [dirName |-> << >>, relativePath |-> << >>, files |-> << >>,
           subdirs |-> << >>]

----------------------------------------------------------------------------
(* Navigation Generator *)

UlOpen == [tag |-> "ul", href |-> << >>, active |-> FALSE, text |-> << >>]
UlClose == [tag |-> "/ul", href |-> << >>, active |-> FALSE, text |-> << >>]
LiClose == [tag |-> "/li", href |-> << >>, active |-> FALSE, text |-> << >>]
Strong(name) == [tag |-> "strong", href |-> << >>, active |-> FALSE, text |-> name]
\* <li><a href="{}"{}>{}</a></li>
Anchor(href, classActive, text) ==
  [tag |-> "a", href |-> href, active |-> classActive, text |-> text]

\* the loop over currentNode.files
RECURSIVE navFiles(_, _, _, _)
\* a loop that marks a link active when the file names agree
navFiles_ActiveByName(files, relativePath, urlPrefix, activeTargetFile) ==
  IF files = << >> THEN << >>
  ELSE LET file == Head(files)
           nameNoExt == stem(file)
           fullLinkPath == relativePath \o <<getTargetFilename(file)>>
           href == urlPrefix \o generic_string(fullLinkPath)
       IN <<Anchor(href,
                   /\ activeTargetFile # << >>
                   /\ getTargetFilename(file) = activeTargetFile[Len(activeTargetFile)],
                   nameNoExt)>>
          \o navFiles(Tail(files), relativePath, urlPrefix, activeTargetFile)

navFiles(files, relativePath, urlPrefix, activeTargetFile) ==
  IF files = << >> THEN << >>
  ELSE LET file == Head(files)
           nameNoExt == stem(file)
           fullLinkPath == relativePath \o <<getTargetFilename(file)>>
           href == urlPrefix \o generic_string(fullLinkPath)
       IN <<Anchor(href, fullLinkPath = activeTargetFile, nameNoExt)>>
          \o navFiles(Tail(files), relativePath, urlPrefix, activeTargetFile)

RECURSIVE generateNavHtml(_, _, _)
RECURSIVE navSubdirs(_, _, _)
\* a loop that labels the single link of a directory with the file's name
navSubdirs_FileLabel(subdirs, urlPrefix, activeTargetFile) ==
  IF subdirs = << >> THEN << >>
  ELSE LET sub == Head(subdirs)
           fileCount == Len(sub.files)
           linkPath == sub.relativePath \o <<getTargetFilename(sub.files[1])>>
           href == urlPrefix \o generic_string(linkPath)
       IN (IF fileCount = 1
           THEN <<Anchor(href, linkPath = activeTargetFile, stem(sub.files[1]))>>
           ELSE <<Strong(sub.dirName)>>
                \o generateNavHtml(sub, urlPrefix, activeTargetFile)
                \o <<LiClose>>)
          \o navSubdirs(Tail(subdirs), urlPrefix, activeTargetFile)

\* a loop that opens a nested list for every directory
navSubdirs_AlwaysExpands(subdirs, urlPrefix, activeTargetFile) ==
  IF subdirs = << >> THEN << >>
  ELSE LET sub == Head(subdirs)
       IN <<Strong(sub.dirName)>>
          \o generateNavHtml(sub, urlPrefix, activeTargetFile)
          \o <<LiClose>>
          \o navSubdirs(Tail(subdirs), urlPrefix, activeTargetFile)

\* a loop that leaves out the directories with nothing in them
navSubdirs_SkipsEmpty(subdirs, urlPrefix, activeTargetFile) ==
  IF subdirs = << >> THEN << >>
  ELSE LET sub == Head(subdirs)
           fileCount == Len(sub.files)
           linkPath == sub.relativePath \o <<getTargetFilename(sub.files[1])>>
           href == urlPrefix \o generic_string(linkPath)
       IN (IF fileCount = 1
           THEN <<Anchor(href, linkPath = activeTargetFile, sub.dirName)>>
           ELSE IF fileCount = 0 /\ sub.subdirs = << >> THEN << >>
           ELSE <<Strong(sub.dirName)>>
                \o generateNavHtml(sub, urlPrefix, activeTargetFile)
                \o <<LiClose>>)
          \o navSubdirs(Tail(subdirs), urlPrefix, activeTargetFile)

\* the loop over currentNode.subdirs
navSubdirs(subdirs, urlPrefix, activeTargetFile) ==
  IF subdirs = << >> THEN << >>
  ELSE LET sub == Head(subdirs)
           fileCount == Len(sub.files)
           linkPath == sub.relativePath \o <<getTargetFilename(sub.files[1])>>
           href == urlPrefix \o generic_string(linkPath)
       IN (IF fileCount = 1
           THEN <<Anchor(href, linkPath = activeTargetFile, sub.dirName)>>
           ELSE <<Strong(sub.dirName)>>
                \o generateNavHtml(sub, urlPrefix, activeTargetFile)
                \o <<LiClose>>)
          \o navSubdirs(Tail(subdirs), urlPrefix, activeTargetFile)

\* a generator that lists the subdirectories before the files
generateNavHtml_DirsFirst(currentNode, urlPrefix, activeTargetFile) ==
  <<UlOpen>>
  \o navSubdirs(currentNode.subdirs, urlPrefix, activeTargetFile)
  \o navFiles(currentNode.files, currentNode.relativePath, urlPrefix,
              activeTargetFile)
  \o <<UlClose>>

generateNavHtml(currentNode, urlPrefix, activeTargetFile) ==
  <<UlOpen>>
  \o navFiles(currentNode.files, currentNode.relativePath, urlPrefix,
              activeTargetFile)
  \o navSubdirs(currentNode.subdirs, urlPrefix, activeTargetFile)
  \o <<UlClose>>

----------------------------------------------------------------------------
(* Configuration *)

\* a line of the configuration file is the sequence of its lexemes
TemplateLine == <<"template", "=", "theme/template.html">>
HeaderLine == <<"header", "=", "assets/header.htm">>
FooterLine == <<"footer", "=", "assets/footer.htm">>
OutputLine == <<"output", "=", "dist">>
NoiseLines == << <<"color", "=", "red">>, <<"no delimiter here">> >>
KeyLines == <<TemplateLine, HeaderLine, FooterLine, OutputLine>>

\* the keys parseConfig of the variant looks for
RecognisedKeys(v) ==
  IF v = "headerfooter" THEN { "header", "footer", "output" }
  ELSE { "template", "output" }

\* the configuration files the run may be given: the four key lines, of which
\* at most MaxMissing recognised ones are left out, with or without lines
\* that carry no recognised key
ConfigFiles(v) ==
  { SelectSeq(KeyLines, LAMBDA l : l[1] \notin M) \o noise :
      M \in { X \in SUBSET RecognisedKeys(v) : Cardinality(X) <= MaxMissing },
      noise \in { << >>, NoiseLines } }

\* line.find('='): position of the first '=', 0 for npos
RECURSIVE find(_, _, _)
find(line, ch, i) ==
  IF i > Len(line) THEN 0
  ELSE IF line[i] = ch THEN i
  ELSE find(line, ch, i + 1)

\* a Config whose template path has a default too
DefaultConfig_WithTemplate ==
  [templatePath |-> <<"template.html">>, headerPath |-> <<"header.htm">>,
   footerPath |-> <<"footer.htm">>, outputDir |-> <<"output_site">>]

\* Config's default member initialisers
DefaultConfig ==
  [templatePath |-> << >>, headerPath |-> << >>, footerPath |-> << >>,
   outputDir |-> <<"output_site">>]

\* the body of parseConfig's while loop, for one line
parseLine(c, line, v) ==
  LET delimiterPos == find(line, "=", 1)
      key == SubSeq(line, 1, delimiterPos - 1)
      value == SubSeq(line, delimiterPos + 1, Len(line))
  IN IF delimiterPos = 0 THEN c
     ELSE IF v = "headerfooter"
     THEN (IF key = <<"header">> THEN [c EXCEPT !.headerPath = value]
           ELSE IF key = <<"footer">> THEN [c EXCEPT !.footerPath = value]
           ELSE IF key = <<"output">> THEN [c EXCEPT !.outputDir = value]
           ELSE c)
     ELSE (IF key = <<"template">> THEN [c EXCEPT !.templatePath = value]
           ELSE IF key = <<"output">> THEN [c EXCEPT !.outputDir = value]
           ELSE c)

RECURSIVE parseLines(_, _, _)
parseLines(c, lines, v) ==
  IF lines = << >> THEN c
  ELSE parseLines(parseLine(c, Head(lines), v), Tail(lines), v)

parseConfig(lines, v) == parseLines(DefaultConfig, lines, v)

----------------------------------------------------------------------------
(* The output directory and what is printed *)

Entry(kind) ==
  [kind |-> kind, base_path |-> << >>, title |-> << >>, navigation |-> << >>,
   src |-> << >>, rendered |-> FALSE]

\* the file writeFile creates at outputPath
Page(base, title, nav, src, rendered) ==
  [kind |-> "page", base_path |-> base, title |-> title, navigation |-> nav,
   src |-> src, rendered |-> rendered]

\* cfg.outputDir does not exist
NoOutput == [p \in {} |-> Entry("dir")]

\* cfg.outputDir as an earlier run left it
StaleOutput ==
  [p \in { << >>, << <<"a", ".", "h", "t", "m", "l">> >>, << <<"o", "l", "d">> >>,
           << <<"o", "l", "d">>, <<"x", ".", "h", "t", "m", "l">> >> } |->
     Entry("stale")]

\* an output directory that is reused as it is
remove_all_KeepsContent(out) == out

\* fs::remove_all(cfg.outputDir), guarded by fs::exists: nothing is left
remove_all(out) == NoOutput

\* fs::create_directories(cfg.outputDir / rel): rel and every missing parent
create_directories(out, rel) ==
  [p \in DOMAIN out \cup { SubSeq(rel, 1, k) : k \in 0..Len(rel) } |->
     IF p \in DOMAIN out THEN out[p] ELSE Entry("dir")]

\* writeFile(cfg.outputDir / rel, content)
writeFile(out, rel, content) ==
  [p \in DOMAIN out \cup { rel } |-> IF p = rel THEN content ELSE out[p]]

Line(kind, path, what) == [kind |-> kind, path |-> path, what |-> what]

\* per-file failures reported so far
Faults == Cardinality({ i \in DOMAIN log : log[i].kind = "Template Error" })

----------------------------------------------------------------------------
(* main *)

Variants == { "headerfooter", "template", "assets" }

\* markers of a value not computed yet
NoPath == << <<"?">> >>
NoString == <<"?">>

IdlePath ==
  /\ sourceFile = << >>
  /\ targetFile = << >>
  /\ currentPath = << >>
  /\ relPath = NoPath
  /\ backPrefix = NoString

Init ==
  /\ variant \in Variants
  /\ pc = "parse"
  /\ cfgFile = << >>
  /\ cfg = DefaultConfig
  /\ fsys = NoFileSystem
  /\ rootNode = NoNode
  /\ outFS \in { NoOutput, StaleOutput }
  /\ removed = {}
  /\ work = << >>
  /\ navHtml = << >>
  /\ log = << >>
  /\ exitCode = -1
  /\ IdlePath

\* a catch block that reports the error and returns 0
Throw_ReturnsZero(path, what) ==
  /\ log' = Append(log, Line("Error", path, what))
  /\ pc' = "exit"
  /\ exitCode' = 0

\* an exception reaches main's catch block: "Error: {what}", return 1
Throw(path, what) ==
  /\ log' = Append(log, Line("Error", path, what))
  /\ pc' = "exit"
  /\ exitCode' = 1

\* Config cfg = parseConfig(configPath);
ParseConfig ==
  /\ pc = "parse"
  /\ \/ /\ Throw(<< >>, "Configuration file not found.")
        /\ UNCHANGED <<cfgFile, cfg>>
     \/ \E file \in ConfigFiles(variant) :
          /\ cfgFile' = file
          /\ cfg' = parseConfig(file, variant)
          /\ pc' = "inputs"
          /\ UNCHANGED <<log, exitCode>>
  /\ UNCHANGED <<variant, fsys, rootNode, outFS, removed, work, navHtml>>
  /\ UNCHANGED pathVars

\* header/footer variant: readFile(cfg.headerPath), readFile(cfg.footerPath),
\* then the input folder check
ReadHeaderFooter ==
  /\ pc = "inputs"
  /\ variant = "headerfooter"
  /\ \E headerReadable, footerReadable, inputExists \in BOOLEAN :
       IF cfg.headerPath = << >> \/ ~headerReadable
       THEN Throw(cfg.headerPath, "Could not read file")
       ELSE IF cfg.footerPath = << >> \/ ~footerReadable
       THEN Throw(cfg.footerPath, "Could not read file")
       ELSE IF ~inputExists
       THEN Throw(InputDir, "Input folder does not exist.")
       ELSE pc' = "scan" /\ UNCHANGED <<log, exitCode>>
  /\ UNCHANGED <<variant, cfgFile, cfg, fsys, rootNode, outFS, removed, work, navHtml>>
  /\ UNCHANGED pathVars

\* a main that empties the output directory before it checks its inputs
CheckInputs_CleansFirst ==
  /\ pc = "inputs"
  /\ variant \in { "template", "assets" }
  /\ outFS' = remove_all(outFS)
  /\ removed' = DOMAIN outFS
  /\ \E inputExists, templateExists \in BOOLEAN :
       IF ~inputExists
       THEN Throw(InputDir, "Input folder does not exist.")
       ELSE IF cfg.templatePath = << >> \/ ~templateExists
       THEN Throw(cfg.templatePath, "Template file does not exist.")
       ELSE pc' = "scan" /\ UNCHANGED <<log, exitCode>>
  /\ UNCHANGED <<variant, cfgFile, cfg, fsys, rootNode, work, navHtml>>
  /\ UNCHANGED pathVars

\* template variants: the input folder and template file checks
CheckInputs ==
  /\ pc = "inputs"
  /\ variant \in { "template", "assets" }
  /\ \E inputExists, templateExists \in BOOLEAN :
       IF ~inputExists
       THEN Throw(InputDir, "Input folder does not exist.")
       ELSE IF cfg.templatePath = << >> \/ ~templateExists
       THEN Throw(cfg.templatePath, "Template file does not exist.")
       ELSE pc' = "scan" /\ UNCHANGED <<log, exitCode>>
  /\ UNCHANGED <<variant, cfgFile, cfg, fsys, rootNode, outFS, removed, work, navHtml>>
  /\ UNCHANGED pathVars

\* a scan that skips what it cannot read and returns the rest of the tree
directory_iterator_throws_BestEffort(fs, dir) ==
  /\ rootNode' = buildTree([dirs |-> { InputDir },
                            files |-> { f \in fs.files : parent_path(f) = InputDir },
                            others |-> {}],
                           InputDir, InputDir, variant, "ascending")
  /\ log' = Append(log, Line("Error", dir, "directory_iterator: cannot open directory"))
  /\ pc' = "clean"
  /\ UNCHANGED exitCode

\* fs::directory_iterator(currentPath) throws for the directory dir: the
\* exception leaves every buildTree call on the stack and reaches main
directory_iterator_throws(fs, dir) ==
  /\ Throw(dir, "directory_iterator: cannot open directory")
  /\ UNCHANGED rootNode

\* DirNode rootNode = buildTree(inputDir, inputDir);
BuildTree ==
  /\ pc = "scan"
  /\ \E fs \in FileSystems :
       /\ fsys' = fs
       /\ \/ \E dir \in fs.dirs : directory_iterator_throws(fs, dir)
          \/ /\ \E ord \in IterOrders :
                  rootNode' = buildTree(fs, InputDir, InputDir, variant, ord)
             /\ pc' = "clean"
             /\ UNCHANGED <<log, exitCode>>
  /\ UNCHANGED <<variant, cfgFile, cfg, outFS, removed, work, navHtml>>
  /\ UNCHANGED pathVars

\* the tasks of processFiles(node, ...), in the order of its calls: the
\* directory itself, its files, then processFiles of each subdirectory
\* a walk that stops at the files of the directory it is given
Walk_NoRecursion(node) ==
  <<[op |-> "dir", relativePath |-> node.relativePath, file |-> << >>]>>
  \o [i \in 1..Len(node.files) |->
        [op |-> "file", relativePath |-> node.relativePath, file |-> node.files[i]]]

RECURSIVE Walk(_)
RECURSIVE WalkAll(_)
WalkAll(nodes) ==
  IF nodes = << >> THEN << >>
  ELSE Walk(Head(nodes)) \o WalkAll(Tail(nodes))

Walk(node) ==
  <<[op |-> "dir", relativePath |-> node.relativePath, file |-> << >>]>>
  \o [i \in 1..Len(node.files) |->
        [op |-> "file", relativePath |-> node.relativePath, file |-> node.files[i]]]
  \o WalkAll(node.subdirs)

\* a main that generates the pages as soon as the output directory is ready
AfterClean_StraightToPages(v) == "process"

\* where main goes once the output directory is ready
AfterClean(v) ==
  IF v = "assets" THEN "assets"
  ELSE IF v = "template" THEN "template"
  ELSE "process"

\* if (fs::exists(cfg.outputDir)) fs::remove_all(cfg.outputDir);
\* fs::create_directories(cfg.outputDir);
CleanOutput ==
  /\ pc = "clean"
  /\ \/ /\ << >> \in DOMAIN outFS
        /\ Throw(cfg.outputDir, "remove_all failed")
        /\ UNCHANGED <<outFS, removed, work>>
     \/ /\ Throw(cfg.outputDir, "create_directories failed")
        /\ outFS' = remove_all(outFS)
        /\ removed' = DOMAIN outFS
        /\ UNCHANGED work
     \/ /\ outFS' = create_directories(remove_all(outFS), << >>)
        /\ removed' = DOMAIN outFS
        /\ pc' = AfterClean(variant)
        /\ work' = IF variant = "headerfooter" THEN Walk(rootNode) ELSE << >>
        /\ UNCHANGED <<log, exitCode>>
  /\ UNCHANGED <<variant, cfgFile, cfg, fsys, rootNode, navHtml>>
  /\ UNCHANGED pathVars

AssetsDir == << <<"a", "s", "s", "e", "t", "s">> >>
AssetFile == AssetsDir \o << <<"s", "t", "y", "l", "e", ".", "c", "s", "s">> >>

\* a copyAssets without the try block around the copy
CopyAssets_ErrorIsFatal ==
  /\ pc = "assets"
  /\ \/ /\ log' = Append(log, Line("No assets folder found", AssetsDir, ""))
        /\ pc' = "template"
        /\ UNCHANGED <<outFS, exitCode>>
     \/ /\ outFS' = writeFile(create_directories(outFS, AssetsDir), AssetFile,
                              Entry("asset"))
        /\ log' = Append(log, Line("Assets successfully copied", AssetsDir, ""))
        /\ pc' = "template"
        /\ UNCHANGED exitCode
     \/ /\ \E done \in { outFS, create_directories(outFS, AssetsDir) } :
             outFS' = done
        /\ Throw(AssetsDir, "filesystem error")
  /\ UNCHANGED <<variant, cfgFile, cfg, fsys, rootNode, removed, work, navHtml>>
  /\ UNCHANGED pathVars

\* copyAssets(cfg.templatePath, cfg.outputDir)
CopyAssets ==
  /\ pc = "assets"
  /\ \/ /\ log' = Append(log, Line("No assets folder found", AssetsDir, ""))
        /\ UNCHANGED outFS
     \/ /\ outFS' = writeFile(create_directories(outFS, AssetsDir), AssetFile,
                              Entry("asset"))
        /\ log' = Append(log, Line("Assets successfully copied", AssetsDir, ""))
     \/ /\ \E done \in { outFS, create_directories(outFS, AssetsDir) } :
             outFS' = done
        /\ log' = Append(log, Line("Error copying assets", AssetsDir,
                                   "filesystem error"))
  /\ pc' = "template"
  /\ UNCHANGED <<variant, cfgFile, cfg, fsys, rootNode, removed, work, navHtml, exitCode>>
  /\ UNCHANGED pathVars

\* inja::Template tmpl = env.parse_template(cfg.templatePath.string());
LoadTemplate ==
  /\ pc = "template"
  /\ \/ /\ Throw(cfg.templatePath, "template parse error")
        /\ UNCHANGED work
     \/ /\ pc' = "process"
        /\ work' = Walk(rootNode)
        /\ UNCHANGED <<log, exitCode>>
  /\ UNCHANGED <<variant, cfgFile, cfg, fsys, rootNode, outFS, removed, navHtml>>
  /\ UNCHANGED pathVars

\* processFiles, entering a directory: fs::create_directories(currentOutputDir)
EnterDirectory ==
  /\ pc = "process"
  /\ work # << >>
  /\ Head(work).op = "dir"
  /\ \/ /\ Throw(Head(work).relativePath, "create_directories failed")
        /\ UNCHANGED <<outFS, work>>
     \/ /\ outFS' = create_directories(outFS, Head(work).relativePath)
        /\ work' = Tail(work)
        /\ UNCHANGED <<pc, log, exitCode>>
  /\ UNCHANGED <<variant, cfgFile, cfg, fsys, rootNode, removed, navHtml>>
  /\ UNCHANGED pathVars

\* a loop that sends every file through renderMarkdown
ProcessFileHeaderFooter_RendersAll ==
  /\ pc = "process"
  /\ variant = "headerfooter"
  /\ work # << >>
  /\ Head(work).op = "file"
  /\ LET relativePath == Head(work).relativePath
         file == Head(work).file
         inputPath == InputDir \o relativePath \o <<file>>
         targetFilename == getTargetFilename(file)
         outputPath == relativePath \o <<targetFilename>>
         currentActiveFile == relativePath \o <<targetFilename>>
         prefix == getBackPrefix(relativePath)
         nav == generateNavHtml(rootNode, prefix, currentActiveFile)
     IN /\ navHtml' = nav
        /\ \/ /\ Throw(inputPath, "Could not read file")
              /\ UNCHANGED <<outFS, work>>
           \/ /\ Throw(inputPath, "Markdown parsing failed.")
              /\ UNCHANGED <<outFS, work>>
           \/ /\ Throw(outputPath, "Could not write file")
              /\ UNCHANGED <<outFS, work>>
           \/ /\ outFS' = writeFile(outFS, outputPath,
                                    Page(<< >>, << >>, nav, inputPath, TRUE))
              /\ log' = Append(log, Line("Created", outputPath, ""))
              /\ work' = Tail(work)
              /\ UNCHANGED <<pc, exitCode>>
  /\ UNCHANGED <<variant, cfgFile, cfg, fsys, rootNode, removed>>
  /\ UNCHANGED pathVars

\* processFiles of the header/footer variant, one pass of the loop over files
ProcessFileHeaderFooter ==
  /\ pc = "process"
  /\ variant = "headerfooter"
  /\ work # << >>
  /\ Head(work).op = "file"
  /\ LET relativePath == Head(work).relativePath
         file == Head(work).file
         inputPath == InputDir \o relativePath \o <<file>>
         targetFilename == getTargetFilename(file)
         outputPath == relativePath \o <<targetFilename>>
         currentActiveFile == relativePath \o <<targetFilename>>
         prefix == getBackPrefix(relativePath)
         nav == generateNavHtml(rootNode, prefix, currentActiveFile)
         isMd == extension(filename(inputPath)) = ExtMd
     IN /\ navHtml' = nav
        /\ \/ /\ Throw(inputPath, "Could not read file")
              /\ UNCHANGED <<outFS, work>>
           \/ /\ isMd
              /\ Throw(inputPath, "Markdown parsing failed.")
              /\ UNCHANGED <<outFS, work>>
           \/ /\ Throw(outputPath, "Could not write file")
              /\ UNCHANGED <<outFS, work>>
           \/ /\ outFS' = writeFile(outFS, outputPath,
                                    Page(<< >>, << >>, nav, inputPath, isMd))
              /\ log' = Append(log, Line("Created", outputPath, ""))
              /\ work' = Tail(work)
              /\ UNCHANGED <<pc, exitCode>>
  /\ UNCHANGED <<variant, cfgFile, cfg, fsys, rootNode, removed>>
  /\ UNCHANGED pathVars

\* a catch block that reports the failure and lets it end the run
TemplateErrorCaught_Rethrows(file, what) ==
  /\ log' = Append(log, Line("Template Error", <<file>>, what))
  /\ pc' = "exit"
  /\ exitCode' = 1
  /\ UNCHANGED <<outFS, work>>

\* the catch block of processFiles: "Template Error in {file}: {what}", and
\* the loop goes on with the next file
TemplateErrorCaught(file, what) ==
  /\ log' = Append(log, Line("Template Error", <<file>>, what))
  /\ work' = Tail(work)
  /\ UNCHANGED <<outFS, pc, exitCode>>

\* a loop that generates the navigation from the directory being processed
ProcessFileTemplate_ScopedNav ==
  /\ pc = "process"
  /\ variant \in { "template", "assets" }
  /\ work # << >>
  /\ Head(work).op = "file"
  /\ LET relativePath == Head(work).relativePath
         file == Head(work).file
         inputPath == InputDir \o relativePath \o <<file>>
         targetFilename == getTargetFilename(file)
         outputPath == relativePath \o <<targetFilename>>
         currentActiveFile == relativePath \o <<targetFilename>>
         prefix == getBackPrefix(relativePath)
         currentNode == CHOOSE n \in { rootNode } \cup
                          UNION { { m.subdirs[i] : i \in DOMAIN m.subdirs } :
                                  m \in { rootNode } \cup
                                        { rootNode.subdirs[i] : i \in DOMAIN rootNode.subdirs } } :
                          n.relativePath = relativePath
         nav == generateNavHtml(currentNode, prefix, currentActiveFile)
     IN /\ navHtml' = nav
        /\ \/ /\ Throw(inputPath, "Could not read file")
              /\ UNCHANGED <<outFS, work>>
           \/ /\ Throw(inputPath, "Markdown parsing failed.")
              /\ UNCHANGED <<outFS, work>>
           \/ /\ Faults < MaxFaults
              /\ \E what \in { "template render error", "Could not write file" } :
                   TemplateErrorCaught(file, what)
           \/ /\ outFS' = writeFile(outFS, outputPath,
                                    Page(prefix, stem(file), nav, inputPath, TRUE))
              /\ log' = Append(log, Line("Created", outputPath, ""))
              /\ work' = Tail(work)
              /\ UNCHANGED <<pc, exitCode>>
  /\ UNCHANGED <<variant, cfgFile, cfg, fsys, rootNode, removed>>
  /\ UNCHANGED pathVars

\* processFiles of the template variants, one pass of the loop over files
ProcessFileTemplate ==
  /\ pc = "process"
  /\ variant \in { "template", "assets" }
  /\ work # << >>
  /\ Head(work).op = "file"
  /\ LET relativePath == Head(work).relativePath
         file == Head(work).file
         inputPath == InputDir \o relativePath \o <<file>>
         targetFilename == getTargetFilename(file)
         outputPath == relativePath \o <<targetFilename>>
         currentActiveFile == relativePath \o <<targetFilename>>
         prefix == getBackPrefix(relativePath)
         nav == generateNavHtml(rootNode, prefix, currentActiveFile)
     IN /\ navHtml' = nav
        /\ \/ /\ Throw(inputPath, "Could not read file")
              /\ UNCHANGED <<outFS, work>>
           \/ /\ Throw(inputPath, "Markdown parsing failed.")
              /\ UNCHANGED <<outFS, work>>
           \/ /\ Faults < MaxFaults
              /\ \E what \in { "template render error", "Could not write file" } :
                   TemplateErrorCaught(file, what)
           \/ /\ outFS' = writeFile(outFS, outputPath,
                                    Page(prefix, stem(file), nav, inputPath, TRUE))
              /\ log' = Append(log, Line("Created", outputPath, ""))
              /\ work' = Tail(work)
              /\ UNCHANGED <<pc, exitCode>>
  /\ UNCHANGED <<variant, cfgFile, cfg, fsys, rootNode, removed>>
  /\ UNCHANGED pathVars

\* processFiles returned: "Done! Output in: ...", return 0
Finish ==
  /\ pc = "process"
  /\ work = << >>
  /\ log' = Append(log, Line("Done", cfg.outputDir, ""))
  /\ pc' = "exit"
  /\ exitCode' = 0
  /\ UNCHANGED <<variant, cfgFile, cfg, fsys, rootNode, outFS, removed, work, navHtml>>
  /\ UNCHANGED pathVars

Next ==
  \/ ParseConfig
  \/ ReadHeaderFooter
  \/ CheckInputs
  \/ BuildTree
  \/ CleanOutput
  \/ CopyAssets
  \/ LoadTemplate
  \/ EnterDirectory
  \/ ProcessFileHeaderFooter
  \/ ProcessFileTemplate
  \/ Finish

Spec == Init /\ [][Next]_vars

----------------------------------------------------------------------------
(* The Path Mapper on its own: getTargetFilename applied to a file name and *)
(* to its own result, and the relativePath / getBackPrefix of a directory   *)

PathAlphabet == { "a", ".", "m", "d" }

SourceNames == UNION { [1..n -> PathAlphabet] : n \in 1..MaxNameLen }

IdleRun ==
  /\ variant = "template"
  /\ pc = "idle"
  /\ cfgFile = << >>
  /\ cfg = DefaultConfig
  /\ fsys = NoFileSystem
  /\ rootNode = NoNode
  /\ outFS = NoOutput
  /\ removed = {}
  /\ work = << >>
  /\ navHtml = << >>
  /\ log = << >>
  /\ exitCode = -1

InitPath ==
  /\ IdleRun
  /\ sourceFile \in SourceNames
  /\ targetFile = << >>
  /\ currentPath \in { InputDir \o d : d \in DirUniverse \cup { << >> } }
  /\ relPath = NoPath
  /\ backPrefix = NoString

\* fs::path targetFilename = getTargetFilename(file), then of the result
MapTarget ==
  /\ Len(targetFile) < 2
  /\ targetFile' = Append(targetFile,
                          getTargetFilename(IF targetFile = << >> THEN sourceFile
                                            ELSE targetFile[Len(targetFile)]))
  /\ UNCHANGED <<sourceFile, currentPath, relPath, backPrefix>>
  /\ UNCHANGED runVars

\* buildTree: node.relativePath of the directory being scanned
ScanDirectory ==
  /\ relPath = NoPath
  /\ relPath' = relativePathOf(currentPath, InputDir)
  /\ UNCHANGED <<sourceFile, targetFile, currentPath, backPrefix>>
  /\ UNCHANGED runVars

\* processFiles: backPrefix = getBackPrefix(currentNode.relativePath)
BackPrefix ==
  /\ relPath # NoPath
  /\ backPrefix = NoString
  /\ backPrefix' = getBackPrefix(relPath)
  /\ UNCHANGED <<sourceFile, targetFile, currentPath, relPath>>
  /\ UNCHANGED runVars

NextPath == MapTarget \/ ScanDirectory \/ BackPrefix

SpecPath == InitPath /\ [][NextPath]_vars

----------------------------------------------------------------------------
(* Reading the generated output back *)

\* the tree's nodes
RECURSIVE Nodes(_)
RECURSIVE NodesAll(_)
NodesAll(ns) == IF ns = << >> THEN {} ELSE Nodes(Head(ns)) \cup NodesAll(Tail(ns))
Nodes(node) == { node } \cup NodesAll(node.subdirs)

Range(f) == { f[i] : i \in DOMAIN f }

\* root-relative output path of every file of the tree
TargetPaths(root) ==
  UNION { { n.relativePath \o <<getTargetFilename(f)>> : f \in Range(n.files) } :
          n \in Nodes(root) }

\* the segments of a URL path, cut at every '/'
RECURSIVE SplitAt(_, _)
SplitAt(str, cur) ==
  IF str = << >> THEN (IF cur = << >> THEN << >> ELSE <<cur>>)
  ELSE IF Head(str) = "/" THEN <<cur>> \o SplitAt(Tail(str), << >>)
  ELSE SplitAt(Tail(str), Append(cur, Head(str)))

Segments(str) == SplitAt(str, << >>)

\* a browser resolving a relative URL against the directory of the page: every
\* ".." removes one directory, every other segment enters one
RECURSIVE ResolveFrom(_, _)
ResolveFrom(dir, segs) ==
  IF segs = << >> THEN [ok |-> TRUE, path |-> dir]
  ELSE IF Head(segs) = DotDot
  THEN (IF dir = << >> THEN [ok |-> FALSE, path |-> << >>]
        ELSE ResolveFrom(parent_path(dir), Tail(segs)))
  ELSE ResolveFrom(Append(dir, Head(segs)), Tail(segs))

Resolve(pagePath, href) == ResolveFrom(parent_path(pagePath), Segments(href))

\* an href without its leading "../" segments
RECURSIVE StripClimb(_)
StripClimb(href) ==
  IF Len(href) >= 3 /\ SubSeq(href, 1, 3) = UpSegment
  THEN StripClimb(SubSeq(href, 4, Len(href)))
  ELSE href

\* the number of leading "../" segments of an href
RECURSIVE ClimbCount(_)
ClimbCount(href) ==
  IF Len(href) >= 3 /\ SubSeq(href, 1, 3) = UpSegment
  THEN 1 + ClimbCount(SubSeq(href, 4, Len(href)))
  ELSE 0

\* the links of a navigation, each with the directory whose list holds it, and
\* the directories shown as a heading followed by a nested list
RECURSIVE NavScan(_, _, _, _, _)
NavScan(nav, i, stack, pending, acc) ==
  IF i > Len(nav) THEN acc
  ELSE LET e == nav[i]
       IN IF e.tag = "ul"
          THEN NavScan(nav, i + 1,
                       IF pending = NoString THEN stack ELSE Append(stack, pending),
                       NoString,
                       IF pending = NoString THEN acc
                       ELSE [acc EXCEPT !.nested = @ \cup { Append(stack, pending) }])
          ELSE IF e.tag = "/ul"
          THEN NavScan(nav, i + 1,
                       IF stack = << >> THEN stack ELSE parent_path(stack),
                       NoString, acc)
          ELSE IF e.tag = "strong"
          THEN NavScan(nav, i + 1, stack, e.text,
                       [acc EXCEPT !.headings = @ \cup { Append(stack, e.text) }])
          ELSE IF e.tag = "a"
          THEN NavScan(nav, i + 1, stack, NoString,
                       [acc EXCEPT !.links = @ \cup
                          { [at |-> stack, target |-> Segments(StripClimb(e.href)),
                             text |-> e.text, active |-> e.active] }])
          ELSE NavScan(nav, i + 1, stack, NoString, acc)

NavOf(nav) ==
  NavScan(nav, 1, << >>, NoString, [links |-> {}, headings |-> {}, nested |-> {}])

\* a link standing for a whole directory: it sits in the list of the
\* directory's parent, is labelled with the directory's name and points into it
CollapsedDirs(nav) ==
  { Append(l.at, l.text) :
      l \in { k \in NavOf(nav).links :
                /\ Len(k.target) = Len(k.at) + 2
                /\ SubSeq(k.target, 1, Len(k.at) + 1) = Append(k.at, k.text) } }

\* the written pages
Pages == { p \in DOMAIN outFS : outFS[p].kind = "page" }

ActiveLinks(nav) == { i \in DOMAIN nav : nav[i].tag = "a" /\ nav[i].active }

----------------------------------------------------------------------------
(* The Tree Builder on its own: buildTree applied to content roots that     *)
(* also hold files it does not accept and entries that are neither          *)
(* directories nor regular files                                            *)

TreeFileNames == { <<"a", ".", "m", "d">>, <<"a", ".", "h", "t", "m">>,
                   <<"a", ".", "h", "t", "m", "l">>, <<".", "m", "d">> }

\* a dangling symbolic link, a socket, a pipe: is_directory() and
\* is_regular_file() are both false
OtherNames == { <<"b", ".", "m", "d">> }

TreeFileSystems ==
  UNION { { [dirs |-> { InputDir \o d : d \in D \cup { << >> } },
             files |-> F, others |-> O] :
            F \in { X \in SUBSET { InputDir \o d \o <<f>> :
                                     d \in D \cup { << >> }, f \in TreeFileNames } :
                      Cardinality(X) <= MaxFiles },
            O \in { X \in SUBSET { InputDir \o d \o <<f>> :
                                     d \in D \cup { << >> }, f \in OtherNames } :
                      Cardinality(X) <= 1 } } :
          D \in DirSets }

InitTree ==
  /\ variant \in Variants
  /\ pc = "tree"
  /\ cfgFile = << >>
  /\ cfg = DefaultConfig
  /\ fsys \in TreeFileSystems
  /\ rootNode = NoNode
  /\ outFS = NoOutput
  /\ removed = {}
  /\ work = << >>
  /\ navHtml = << >>
  /\ log = << >>
  /\ exitCode = -1
  /\ IdlePath

\* DirNode rootNode = buildTree(inputDir, inputDir), every directory readable
ScanTree ==
  /\ pc = "tree"
  /\ \E ord \in IterOrders :
       rootNode' = buildTree(fsys, InputDir, InputDir, variant, ord)
  /\ pc' = "scanned"
  /\ UNCHANGED <<variant, cfgFile, cfg, fsys, outFS, removed, work, navHtml,
                 log, exitCode>>
  /\ UNCHANGED pathVars

\* what activeTargetFile may be: the output path of a file the tree may hold,
\* or a path that is none (a source name, a directory, the empty path)
ActiveTargets ==
  { d \o <<f>> : d \in DirUniverse \cup { << >> },
                 f \in { <<"a", ".", "h", "t", "m", "l">>, <<"a", ".", "h", "t", "m">>,
                         <<"a", ".", "m", "d">> } }
  \cup DirUniverse \cup { << >> }

\* generateNavHtml(rootNode, html, urlPrefix, activeTargetFile) on the tree;
\* currentPath keeps activeTargetFile, backPrefix keeps urlPrefix
RenderNav ==
  /\ pc = "scanned"
  /\ \E activeTargetFile \in ActiveTargets, urlPrefix \in { << >>, UpSegment } :
       /\ navHtml' = generateNavHtml(rootNode, urlPrefix, activeTargetFile)
       /\ currentPath' = activeTargetFile
       /\ backPrefix' = urlPrefix
  /\ pc' = "rendered"
  /\ UNCHANGED <<variant, cfgFile, cfg, fsys, rootNode, outFS, removed, work,
                 log, exitCode, sourceFile, targetFile, relPath>>

NextTree == ScanTree \/ RenderNav

SpecTree == InitTree /\ [][NextTree]_vars

----------------------------------------------------------------------------
(* The GitHub docs fetcher: main of the tool that reads docs/YYYY/*.md      *)
(* through the GitHub contents API.  cfgFile is the map load_dotenv          *)
(* returns, cfg the four settings, fsys the requests made so far with what   *)
(* http_get_json returned, work the entries the two loops still have to      *)
(* visit (the entries of a year directory in front of the rest of docs/).    *)

\* longest array the API answers with
MaxEntries == 2

Docs == <<"d", "o", "c", "s">>
Year2024 == <<"2", "0", "2", "4">>
Year2025 == <<"2", "0", "2", "5">>
Misc == <<"m", "i", "s", "c">>
Digits == { "0", "1", "2", "3", "4", "5", "6", "7", "8", "9" }

\* an element of a listing: is_object(), whether "type" holds a string, and
\* the values of "type", "name" and "path"
JsonEntry(type, name, path) ==
  [is_object |-> TRUE, typed |-> TRUE, type |-> type, name |-> name, path |-> path]
NonObject ==
  [is_object |-> FALSE, typed |-> TRUE, type |-> "", name |-> << >>, path |-> << >>]
\* an object whose "type" is not a string: value("type", "") throws
\* json::type_error
IllTyped ==
  [is_object |-> TRUE, typed |-> FALSE, type |-> "", name |-> << >>, path |-> << >>]

DocsEntries ==
  { JsonEntry("dir", n, <<Docs, n>>) : n \in { Year2024, Year2025, Misc } }
  \cup { JsonEntry("file", Year2024, <<Docs, Year2024>>), NonObject, IllTyped }

FileEntries(year) ==
  { JsonEntry("file", n, <<Docs, year, n>>) :
      n \in { <<"a", ".", "m", "d">>, <<"b", ".", "m", "d">>,
              <<"a", ".", "t", "x", "t">>, <<"m", "d">> } }
  \cup { JsonEntry("dir", <<"a", ".", "m", "d">>, <<Docs, year, <<"a", ".", "m", "d">> >>),
         NonObject, IllTyped }

\* the arrays of at most MaxEntries elements of U
Arrays(U) == UNION { [1..n -> U] : n \in 0..MaxEntries }

\* what a request ends with: the curl result, the status code and what the
\* body is (no JSON text, a JSON array with its elements, a JSON object with
\* or without "content" and, decoded, with or without front matter)
HttpResult(curl_code, http_code, body, items) ==
  [curl_code |-> curl_code, http_code |-> http_code, body |-> body, items |-> items]

Failures ==
  { HttpResult("CURLE_COULDNT_CONNECT", 0, "", << >>),
    HttpResult("CURLE_OK", 404, "object", << >>),
    HttpResult("CURLE_OK", 200, "no json", << >>) }

ListingResults(U) ==
  Failures \cup { HttpResult("CURLE_OK", 200, "object", << >>) }
  \cup { HttpResult("CURLE_OK", 200, "array", a) : a \in Arrays(U) }

FileResults ==
  Failures
  \cup { HttpResult("CURLE_OK", 200, b, << >>) :
           b \in { "array", "object", "content", "content with front matter" } }

\* std::nullopt
nullopt == [has_value |-> FALSE, body |-> "", items |-> << >>]

\* http_get_json: nullopt for a curl error, a status of 400 and above, and a
\* body json::parse rejects
http_get_json(r) ==
  IF r.curl_code # "CURLE_OK" THEN nullopt
  ELSE IF r.http_code >= 400 THEN nullopt
  ELSE IF r.body = "no json" THEN nullopt
  ELSE [has_value |-> TRUE, body |-> r.body, items |-> r.items]

is_array(j) == j.body = "array"
contains_content(j) == j.body \in { "content", "content with front matter" }
\* parse_front_matter(base64_decode(content)).empty()
header_empty(j) == j.body # "content with front matter"

EnvKeys == { "GITHUB_USER", "GITHUB_REPO", "GITHUB_TOKEN", "BRANCH" }

\* what load_dotenv returns: the keys of .env with their values, "" for a
\* key without value; the empty map when there is no .env
EnvFiles == UNION { [K -> { "", "set" }] : K \in SUBSET EnvKeys }

get_env(env, key, def) == IF key \in DOMAIN env THEN env[key] ELSE def

NoSettings == [user |-> "", repo |-> "", token |-> "", branch |-> ""]

InitFetch ==
  /\ variant = "fetcher"
  /\ pc = "env"
  /\ cfgFile = << >>
  /\ cfg = NoSettings
  /\ fsys = << >>
  /\ rootNode = NoNode
  /\ outFS = NoOutput
  /\ removed = {}
  /\ work = << >>
  /\ navHtml = << >>
  /\ log = << >>
  /\ exitCode = -1
  /\ IdlePath

\* load_dotenv, the four get_env calls and the check of the three settings
LoadEnv ==
  /\ pc = "env"
  /\ \E env \in EnvFiles :
       LET user == get_env(env, "GITHUB_USER", "")
           repo == get_env(env, "GITHUB_REPO", "")
           token == get_env(env, "GITHUB_TOKEN", "")
           branch == get_env(env, "BRANCH", "main")
       IN /\ cfgFile' = env
          /\ cfg' = [user |-> user, repo |-> repo, token |-> token, branch |-> branch]
          /\ IF user = "" \/ repo = "" \/ token = ""
             THEN /\ log' = Append(log, Line("Missing configuration in .env", << >>, ""))
                  /\ pc' = "exit"
                  /\ exitCode' = 1
             ELSE /\ pc' = "docs"
                  /\ UNCHANGED <<log, exitCode>>
  /\ UNCHANGED <<variant, fsys, rootNode, outFS, removed, work, navHtml>>
  /\ UNCHANGED pathVars

\* the request is made and its outcome is on record
Request(url, reply) == Append(fsys, [url |-> url, reply |-> reply])

Visit(level, entries) ==
  [i \in DOMAIN entries |-> [level |-> level, entry |-> entries[i]]]

\* 1) List entries in docs/
ListDocs ==
  /\ pc = "docs"
  /\ \E r \in ListingResults(DocsEntries) :
       LET docs_list_opt == http_get_json(r)
       IN /\ fsys' = Request(<<Docs>>, docs_list_opt)
          /\ IF ~docs_list_opt.has_value
             THEN /\ log' = Append(log, Line("Could not fetch docs/.", <<Docs>>, ""))
                  /\ pc' = "exit"
                  /\ exitCode' = 1
                  /\ UNCHANGED work
             ELSE IF ~is_array(docs_list_opt)
             THEN /\ log' = Append(log, Line("Expected array for docs/ content.", <<Docs>>, ""))
                  /\ pc' = "exit"
                  /\ exitCode' = 1
                  /\ UNCHANGED work
             ELSE /\ work' = Visit("docs", docs_list_opt.items)
                  /\ pc' = "loop"
                  /\ UNCHANGED <<log, exitCode>>
  /\ UNCHANGED <<variant, cfgFile, cfg, rootNode, outFS, removed, navHtml>>
  /\ UNCHANGED pathVars

\* (name.size() == 4) && std::all_of(name.begin(), name.end(), ::isdigit)
is_year(name) == Len(name) = 4 /\ \A i \in DOMAIN name : name[i] \in Digits

\* an exception no handler catches: std::terminate, main does not return
Terminate ==
  /\ pc' = "terminated"
  /\ UNCHANGED <<fsys, work, log, exitCode>>

\* a main that gives up when a year directory cannot be listed
DirectoryFetchFailed_GivesUp(name) ==
  /\ log' = Append(log, Line("Could not fetch directory", <<Docs, name>>, ""))
  /\ pc' = "exit"
  /\ exitCode' = 1
  /\ UNCHANGED work

\* "Could not fetch directory docs/{name} ." and continue
DirectoryFetchFailed(name) ==
  /\ log' = Append(log, Line("Could not fetch directory", <<Docs, name>>, ""))
  /\ work' = Tail(work)
  /\ UNCHANGED <<pc, exitCode>>

\* one pass of the loop over docs_list
YearEntry ==
  /\ pc = "loop"
  /\ work # << >>
  /\ Head(work).level = "docs"
  /\ LET entry == Head(work).entry
     IN IF ~entry.is_object
        THEN work' = Tail(work) /\ UNCHANGED <<fsys, pc, log, exitCode>>
        ELSE IF ~entry.typed
        THEN Terminate
        ELSE IF entry.type # "dir" \/ ~is_year(entry.name)
        THEN work' = Tail(work) /\ UNCHANGED <<fsys, pc, log, exitCode>>
        ELSE \E r \in ListingResults(FileEntries(entry.name)) :
               LET sub_list_opt == http_get_json(r)
               IN /\ fsys' = Request(<<Docs, entry.name>>, sub_list_opt)
                  /\ IF ~sub_list_opt.has_value
                     THEN DirectoryFetchFailed(entry.name)
                     ELSE IF ~is_array(sub_list_opt)
                     THEN work' = Tail(work) /\ UNCHANGED <<pc, log, exitCode>>
                     ELSE /\ work' = Visit("file", sub_list_opt.items) \o Tail(work)
                          /\ UNCHANGED <<pc, log, exitCode>>
  /\ UNCHANGED <<variant, cfgFile, cfg, rootNode, outFS, removed, navHtml>>
  /\ UNCHANGED pathVars

\* fname.size() >= 3 and fname.substr(fname.size() - 3) == ".md"
is_md(fname) ==
  Len(fname) >= 3 /\ SubSeq(fname, Len(fname) - 2, Len(fname)) = ExtMd

\* one pass of the loop over sub_list
FileEntry ==
  /\ pc = "loop"
  /\ work # << >>
  /\ Head(work).level = "file"
  /\ LET file_entry == Head(work).entry
         path == file_entry.path
     IN IF ~file_entry.is_object
        THEN work' = Tail(work) /\ UNCHANGED <<fsys, pc, log, exitCode>>
        ELSE IF ~file_entry.typed
        THEN Terminate
        ELSE IF file_entry.type # "file" \/ ~is_md(file_entry.name)
        THEN work' = Tail(work) /\ UNCHANGED <<fsys, pc, log, exitCode>>
        ELSE \E r \in FileResults :
               LET file_json_opt == http_get_json(r)
                   processing == Append(log, Line("Processing", path, ""))
               IN /\ fsys' = Request(path, file_json_opt)
                  /\ work' = Tail(work)
                  /\ UNCHANGED <<pc, exitCode>>
                  /\ IF ~file_json_opt.has_value
                     THEN log' = Append(processing,
                                        Line("Could not fetch file metadata", path, ""))
                     ELSE IF ~contains_content(file_json_opt)
                     THEN log' = Append(processing, Line("No content found", path, ""))
                     ELSE IF header_empty(file_json_opt)
                     THEN log' = Append(processing, Line("No Front Matter found", path, ""))
                     ELSE log' = Append(processing, Line("Fields", path, ""))
  /\ UNCHANGED <<variant, cfgFile, cfg, rootNode, outFS, removed, navHtml>>
  /\ UNCHANGED pathVars

\* "All files processed.", return 0
AllFilesProcessed ==
  /\ pc = "loop"
  /\ work = << >>
  /\ log' = Append(log, Line("All files processed.", << >>, ""))
  /\ pc' = "exit"
  /\ exitCode' = 0
  /\ UNCHANGED <<variant, cfgFile, cfg, fsys, rootNode, outFS, removed, work, navHtml>>
  /\ UNCHANGED pathVars

NextFetch == LoadEnv \/ ListDocs \/ YearEntry \/ FileEntry \/ AllFilesProcessed

SpecFetch == InitFetch /\ [][NextFetch]_vars

----------------------------------------------------------------------------
(* Base64: base64_encode of the GitHub client and base64_decode of the      *)
(* docs fetcher, with their int accumulators.  A byte string is a sequence  *)
(* of numbers 0..255, Base64 text a sequence of characters.  sourceFile is  *)
(* the byte string given, targetFile its encoding, backPrefix the decoded   *)
(* bytes.                                                                    *)

\* longest byte string encoded
MaxBytes == 6

\* the byte values strings are made of: a zero, a letter, and two bytes with
\* the top bit set
Bytes == { 0, 65, 128, 255 }

ByteStrings == UNION { [1..n -> Bytes] : n \in 0..MaxBytes }

b64_chars ==
  <<"A", "B", "C", "D", "E", "F", "G", "H", "I", "J", "K", "L", "M",
    "N", "O", "P", "Q", "R", "S", "T", "U", "V", "W", "X", "Y", "Z",
    "a", "b", "c", "d", "e", "f", "g", "h", "i", "j", "k", "l", "m",
    "n", "o", "p", "q", "r", "s", "t", "u", "v", "w", "x", "y", "z",
    "0", "1", "2", "3", "4", "5", "6", "7", "8", "9", "+", "/">>

\* width of int
IntBits == 32

\* an accumulator that forgets what it held
shl_Forgets(val, k) == 0

\* val << k on a two's complement int of IntBits bits: the bits shifted
\* beyond the top are lost and bit IntBits - 1 is the sign
shl(val, k) ==
  LET low == val % (2 ^ (IntBits - 1 - k))
      sign == (val \div (2 ^ (IntBits - 1 - k))) % 2
  IN IF sign = 1
     THEN ((low * (2 ^ k)) - (2 ^ (IntBits - 2))) - (2 ^ (IntBits - 2))
     ELSE low * (2 ^ k)

\* val >> k: the sign is carried in
shr(val, k) == val \div (2 ^ k)

\* the inner loop of base64_encode: while (valb >= 0)
RECURSIVE encodeDrain(_, _, _)
encodeDrain(val, valb, out) ==
  IF valb >= 0
  THEN encodeDrain(val, valb - 6,
                   Append(out, b64_chars[(shr(val, valb) % 64) + 1]))
  ELSE [valb |-> valb, out |-> out]

\* the loop of base64_encode over the bytes of in, from byte i on
RECURSIVE encodeLoop(_, _, _, _, _)
encodeLoop(in, i, val, valb, out) ==
  IF i > Len(in) THEN [val |-> val, valb |-> valb, out |-> out]
  ELSE LET v == shl(val, 8) + in[i]
           d == encodeDrain(v, valb + 8, out)
       IN encodeLoop(in, i + 1, v, d.valb, d.out)

\* while (out.size() % 4) out.push_back('=')
RECURSIVE pad(_)
pad(out) == IF Len(out) % 4 # 0 THEN pad(Append(out, "=")) ELSE out

base64_encode(in) ==
  LET l == encodeLoop(in, 1, 0, -6, << >>)
  IN pad(IF l.valb > -6
         THEN Append(l.out, b64_chars[(shr(shl(l.val, 8), l.valb + 8) % 64) + 1])
         ELSE l.out)

\* T[c]: the position of c in b64_chars, -1 for any other character
T(c) ==
  IF \E i \in DOMAIN b64_chars : b64_chars[i] = c
  THEN (CHOOSE i \in DOMAIN b64_chars : b64_chars[i] = c) - 1
  ELSE -1

\* the loop of base64_decode over the characters of in, from character i on
RECURSIVE decodeLoop(_, _, _, _, _)
decodeLoop(in, i, val, valb, out) ==
  IF i > Len(in) THEN out
  ELSE IF T(in[i]) = -1
  THEN (IF in[i] = "=" THEN out ELSE decodeLoop(in, i + 1, val, valb, out))
  ELSE LET v == shl(val, 6) + T(in[i])
       IN IF valb + 6 >= 0
          THEN decodeLoop(in, i + 1, v, valb + 6 - 8,
                          Append(out, shr(v, valb + 6) % 256))
          ELSE decodeLoop(in, i + 1, v, valb + 6, out)

base64_decode(in) == decodeLoop(in, 1, 0, -8, << >>)

InitBase64 ==
  /\ variant = "base64"
  /\ pc = "encode"
  /\ cfgFile = << >>
  /\ cfg = DefaultConfig
  /\ fsys = NoFileSystem
  /\ rootNode = NoNode
  /\ outFS = NoOutput
  /\ removed = {}
  /\ work = << >>
  /\ navHtml = << >>
  /\ log = << >>
  /\ exitCode = -1
  /\ sourceFile \in ByteStrings
  /\ targetFile = << >>
  /\ currentPath = << >>
  /\ relPath = NoPath
  /\ backPrefix = NoString

\* base64_encode(in)
Encode ==
  /\ pc = "encode"
  /\ targetFile' = base64_encode(sourceFile)
  /\ pc' = "decode"
  /\ UNCHANGED <<variant, cfgFile, cfg, fsys, rootNode, outFS, removed, work,
                 navHtml, log, exitCode, sourceFile, currentPath, relPath,
                 backPrefix>>

\* base64_decode of what base64_encode returned
Decode ==
  /\ pc = "decode"
  /\ backPrefix' = base64_decode(targetFile)
  /\ pc' = "decoded"
  /\ UNCHANGED <<variant, cfgFile, cfg, fsys, rootNode, outFS, removed, work,
                 navHtml, log, exitCode, sourceFile, targetFile, currentPath,
                 relPath>>

NextBase64 == Encode \/ Decode

SpecBase64 == InitBase64 /\ [][NextBase64]_vars

----------------------------------------------------------------------------
(* Properties *)

\* C1: every page's navigation, generated from the root with the page's own
\* TargetPath as activeTarget, holds exactly one link carrying the active
\* marker, and that link's href without the climb prefix is the activeTarget.
C1_ExactlyOneActiveLink ==
  \A p \in Pages :
    LET nav == outFS[p].navigation
    IN /\ Cardinality(ActiveLinks(nav)) = 1
       /\ \A i \in ActiveLinks(nav) :
            StripClimb(nav[i].href) = generic_string(p)

\* C2: in every navigation generated from the root, each non-root directory
\* with exactly one eligible file is a single link and no heading with a
\* nested list, and each non-root directory with two or more eligible files
\* is a heading with a nested list that links its files.
C2_CollapsingRuleEverywhere ==
  \A p \in Pages :
    LET nav == outFS[p].navigation
    IN \A n \in Nodes(rootNode) \ { rootNode } :
         /\ Len(n.files) = 1 =>
              /\ n.relativePath \in CollapsedDirs(nav)
              /\ n.relativePath \notin NavOf(nav).headings
         /\ Len(n.files) >= 2 =>
              /\ n.relativePath \in NavOf(nav).headings
              /\ n.relativePath \in NavOf(nav).nested
              /\ \A f \in Range(n.files) :
                   \E l \in NavOf(nav).links :
                     /\ l.at = n.relativePath
                     /\ l.target = n.relativePath \o <<getTargetFilename(f)>>

\* processFiles has been called (a run that fails before the walk leaves no
\* task behind; one that fails inside it leaves the failing task)
Started == pc = "process" \/ (pc = "exit" /\ (exitCode = 0 \/ work # << >>))

\* what processFiles has finished so far, and the file tasks among it
Finished == SubSeq(Walk(rootNode), 1, Len(Walk(rootNode)) - Len(work))
FilesFinished == SelectSeq(Finished, LAMBDA t : t.op = "file")
FileLines == SelectSeq(log, LAMBDA l : l.kind \in { "Created", "Template Error" })
FileTasks == SelectSeq(Walk(rootNode), LAMBDA t : t.op = "file")
TaskTarget(t) == t.relativePath \o <<getTargetFilename(t.file)>>
Last(q) == q[Len(q)]

\* C3: a template engine failure for one file is reported with the file's
\* name and the underlying error, no output is written for that file, and
\* processFiles goes on with the remaining files and subdirectories: the
\* failure does not end the run, and a run that ends with exit code 0 has
\* handled every file of the tree.
C3_TemplateFailureSkipsOnlyThatFile ==
  (variant \in { "template", "assets" } /\ Started) =>
    /\ Len(FileLines) = Len(FilesFinished)
    /\ \A j \in DOMAIN FileLines :
         IF FileLines[j].kind = "Template Error"
         THEN /\ FileLines[j].path = <<FilesFinished[j].file>>
              /\ FileLines[j].what \in { "template render error",
                                         "Could not write file" }
              /\ TaskTarget(FilesFinished[j]) \notin DOMAIN outFS
         ELSE /\ FileLines[j].path = TaskTarget(FilesFinished[j])
              /\ TaskTarget(FilesFinished[j]) \in Pages
    /\ (log # << >> /\ Last(log).kind = "Template Error") =>
         (pc = "process" /\ exitCode = -1 /\ work = SubSeq(Walk(rootNode),
            Len(Finished) + 1, Len(Walk(rootNode))))
    /\ (pc = "exit" /\ exitCode = 0) =>
         (work = << >> /\ Len(FileLines) = Len(FileTasks))

\* C3 witness: a run ended with exit code 0 in which a template failure was
\* reported and a page of a later file was written after it.
C3_Witness ==
  /\ pc = "exit" /\ exitCode = 0
  /\ \E i, j \in DOMAIN log :
       /\ i < j
       /\ log[i].kind = "Template Error"
       /\ log[j].kind = "Created"
       /\ Len(log[j].path) > 1

\* C4: a Markdown conversion failure on one file only skips that file: the
\* run ends with exit code 0 and every other file of the tree has been
\* handled (its page written, or its own failure reported).
C4_ConversionFailureSkipsOnlyThatFile ==
  (pc = "exit" /\ \E i \in DOMAIN log : log[i].what = "Markdown parsing failed.") =>
    /\ exitCode = 0
    /\ \A k \in DOMAIN FileTasks :
         \/ TaskTarget(FileTasks[k]) \in Pages
         \/ \E i \in DOMAIN log :
              /\ log[i].kind \in { "Error", "Template Error" }
              /\ filename(log[i].path) = FileTasks[k].file

\* a read of a content file or a directory creation of the render walk failed
WalkIOFailure(l) ==
  \/ l.what = "Could not read file" /\ l.path \in fsys.files
  \/ l.what = "create_directories failed" /\ l.path # cfg.outputDir

CreatedPaths(lines) ==
  { lines[i].path : i \in { k \in DOMAIN lines : lines[k].kind = "Created" } }

\* C5: a failure to read a content file or to create an output directory
\* during the render walk is fatal: it is the last thing the run reports, the
\* pages on disk are the ones created before it, the task it hit stays
\* undone, and main returns 1.
C5_ReadOrMkdirFailureIsFatal ==
  \A i \in DOMAIN log :
    WalkIOFailure(log[i]) =>
      /\ i = Len(log)
      /\ log[i].kind = "Error"
      /\ pc = "exit"
      /\ exitCode = 1
      /\ work # << >>
      /\ Pages = CreatedPaths(SubSeq(log, 1, i - 1))

\* C5 witness: a content file could not be read after a page had been written
\* and while more than the failing file was still to do.
C5_Witness ==
  /\ log # << >>
  /\ Last(log).what = "Could not read file"
  /\ Last(log).path \in fsys.files
  /\ Pages # {}
  /\ Len(work) > 1
  /\ pc = "exit" /\ exitCode = 1

\* C6: every href of every written page's navigation, resolved against the
\* page's directory, stays at or below the output root and is the TargetPath
\* of the file the link stands for (the file of that name in the list's
\* directory, or the only file of the collapsed directory); the href is the
\* page's depth in "../" followed by that TargetPath, so one "../" for a page
\* of a first-level directory.
C6_HrefResolvesToTargetPath ==
  \A p \in Pages :
    \A i \in DOMAIN outFS[p].navigation :
      LET e == outFS[p].navigation[i]
          r == Resolve(p, e.href)
      IN e.tag = "a" =>
           /\ r.ok
           /\ r.path \in TargetPaths(rootNode)
           /\ \E n \in Nodes(rootNode) : \E f \in Range(n.files) :
                /\ r.path = n.relativePath \o <<getTargetFilename(f)>>
                /\ \/ e.text = stem(f)
                   \/ e.text = n.dirName /\ Len(n.files) = 1
           /\ ClimbCount(e.href) = Len(p) - 1
           /\ e.href = [k \in 1..(3 * (Len(p) - 1)) |-> UpSegment[((k - 1) % 3) + 1]]
                       \o generic_string(r.path)

\* C6 witness: a page two directories deep whose navigation links a file of
\* the root and a file of a directory.
C6_Witness ==
  \E p \in Pages :
    /\ Len(p) = 3
    /\ \E l1, l2 \in NavOf(outFS[p].navigation).links :
         Len(l1.target) = 1 /\ Len(l2.target) > 1

EndsWithMd(f) == Len(f) >= 3 /\ SubSeq(f, Len(f) - 2, Len(f)) = ExtMd

\* C7 as stated: getTargetFilename is idempotent, maps every name ending in
\* ".md" to the name with ".md" replaced by ".html", and leaves every other
\* name unchanged.
C7_MapTargetOnEveryMdSuffix ==
  Len(targetFile) = 2 =>
    /\ targetFile[2] = targetFile[1]
    /\ IF EndsWithMd(sourceFile)
       THEN targetFile[1] = SubSeq(sourceFile, 1, Len(sourceFile) - 3) \o ExtHtml
       ELSE targetFile[1] = sourceFile

\* C7 amended: the same, except that the bare name ".md" (a name whose only
\* dot is its first character has no extension) is left unchanged like every
\* name that does not end in ".md".
C7_MapTargetOnMdExtension ==
  Len(targetFile) = 2 =>
    /\ targetFile[2] = targetFile[1]
    /\ IF EndsWithMd(sourceFile) /\ sourceFile # ExtMd
       THEN targetFile[1] = SubSeq(sourceFile, 1, Len(sourceFile) - 3) \o ExtHtml
       ELSE targetFile[1] = sourceFile

\* C7 witness: getTargetFilename applied twice to a name with a stem and the
\* extension ".md".
C7_Witness ==
  /\ Len(targetFile) = 2
  /\ EndsWithMd(sourceFile)
  /\ Len(sourceFile) > 3
  /\ targetFile[1] # sourceFile

\* C8: for a directory d components below the root, relativePath has d
\* segments and getBackPrefix of it is exactly d repetitions of "../"; for
\* the root it is the empty string.
C8_BackPrefixIsDepthUpSegments ==
  backPrefix # NoString =>
    LET d == Len(currentPath) - Len(InputDir)
    IN /\ Len(relPath) = d
       /\ backPrefix = [k \in 1..(3 * d) |-> UpSegment[((k - 1) % 3) + 1]]
       /\ (currentPath = InputDir => backPrefix = << >>)

\* C8 witness: the prefix of a directory two levels below the root.
C8_Witness ==
  /\ backPrefix # NoString
  /\ Len(currentPath) = Len(InputDir) + 2

StaleEntries == { p \in DOMAIN outFS : outFS[p].kind = "stale" }

\* C9: once a page or an asset of the run is on disk, and from the moment the
\* output directory has been prepared, the output root exists and holds
\* nothing an earlier run left: it was deleted and recreated first.
C9_OutputRootIsFresh ==
  /\ (\E p \in DOMAIN outFS : outFS[p].kind \in { "page", "asset" }) =>
       StaleEntries = {}
  /\ (pc \in { "assets", "template", "process" } \/ (pc = "exit" /\ exitCode = 0)) =>
       (<< >> \in DOMAIN outFS /\ StaleEntries = {})

\* C9 witness: a run over an output root left by an earlier run ended with
\* exit code 0, and wrote a page where a stale file had been.
C9_Witness ==
  /\ removed # {}
  /\ pc = "exit" /\ exitCode = 0
  /\ \E p \in Pages : p \in removed

\* the file has a line "key=..."
HasKey(file, key) ==
  \E i \in DOMAIN file :
    /\ find(file[i], "=", 1) > 0
    /\ SubSeq(file[i], 1, find(file[i], "=", 1) - 1) = <<key>>

\* the value of the last line "key=..." of the file, or the default
ValueOr(file, key, default) ==
  IF ~HasKey(file, key) THEN default
  ELSE LET i == CHOOSE k \in DOMAIN file :
                  /\ HasKey(<<file[k]>>, key)
                  /\ \A m \in DOMAIN file : HasKey(<<file[m]>>, key) => m <= k
       IN SubSeq(file[i], find(file[i], "=", 1) + 1, Len(file[i]))

\* the keys that name a file the variant needs
PathKeys(v) == IF v = "headerfooter" THEN { "header", "footer" } ELSE { "template" }

\* only the recognised keys reach the Config
UnknownKeysIgnored ==
  /\ cfg.outputDir = ValueOr(cfgFile, "output", <<"output_site">>)
  /\ cfg.templatePath = IF variant = "headerfooter" THEN << >>
                        ELSE ValueOr(cfgFile, "template", << >>)
  /\ cfg.headerPath = IF variant = "headerfooter"
                      THEN ValueOr(cfgFile, "header", << >>) ELSE << >>
  /\ cfg.footerPath = IF variant = "headerfooter"
                      THEN ValueOr(cfgFile, "footer", << >>) ELSE << >>

\* the run ended with exit code 1 or is about to, and buildTree was not called
AbortsBeforeBuildTree ==
  /\ pc \in { "inputs", "exit" }
  /\ pc = "exit" => exitCode = 1
  /\ rootNode = NoNode
  /\ fsys = NoFileSystem

\* C10 as stated: unknown keys are ignored, and a configuration file without
\* the template key (header or footer key in the header/footer variant) or
\* without the output key aborts the run before buildTree is called.
C10_MissingKeyOrOutputIsFatal ==
  pc # "parse" =>
    /\ UnknownKeysIgnored
    /\ (\E k \in PathKeys(variant) \cup { "output" } : ~HasKey(cfgFile, k)) =>
         AbortsBeforeBuildTree

\* C10 amended: unknown keys are ignored; a configuration file without the
\* template key (header or footer key in the header/footer variant) aborts
\* the run with exit code 1 before buildTree is called; without the output
\* key the output root is the default "output_site" and nothing aborts.
C10_MissingPathKeyIsFatal ==
  pc # "parse" =>
    /\ UnknownKeysIgnored
    /\ (\E k \in PathKeys(variant) : ~HasKey(cfgFile, k)) => AbortsBeforeBuildTree
    /\ ~HasKey(cfgFile, "output") => cfg.outputDir = <<"output_site">>

\* C10 witness: the template variant given a file with unknown lines and no
\* template key has ended with exit code 1.
C10_Witness ==
  /\ variant = "template"
  /\ pc = "exit" /\ exitCode = 1
  /\ ~HasKey(cfgFile, "template")
  /\ HasKey(cfgFile, "color")
  /\ HasKey(cfgFile, "output")

\* C11: the tree buildTree returned is the tree it returns for the same
\* content root under every enumeration order of the directory iterator, and
\* at every node the files are ascending by name and the subdirectories
\* ascending by directory name.
C11_BuildTreeIsDeterministic ==
  rootNode # NoNode =>
    /\ \A ord \in IterOrders :
         rootNode = buildTree(fsys, InputDir, InputDir, variant, ord)
    /\ \A n \in Nodes(rootNode) :
         /\ \A i, j \in DOMAIN n.files :
              i < j => StrLess(n.files[i], n.files[j])
         /\ \A i, j \in DOMAIN n.subdirs :
              i < j => StrLess(n.subdirs[i].dirName, n.subdirs[j].dirName)

\* C11 witness: a tree was built from a root directory that holds several
\* eligible files and several subdirectories, which the two enumeration
\* orders list differently.
C11_Witness ==
  /\ rootNode # NoNode
  /\ Len(rootNode.files) >= 2
  /\ Len(rootNode.subdirs) >= 2
  /\ directory_iterator(DirEntries(fsys, InputDir), "ascending")
       # directory_iterator(DirEntries(fsys, InputDir), "descending")

ScanFailed ==
  \E i \in DOMAIN log : log[i].what = "directory_iterator: cannot open directory"

\* C12: when a directory of the content root cannot be enumerated, no tree
\* is returned, the run has ended with exit code 1 and the error as its last
\* message, the output directory was not touched and no page was written.
C12_UnreadableDirectoryAbortsBuild ==
  ScanFailed =>
    /\ pc = "exit" /\ exitCode = 1
    /\ rootNode = NoNode
    /\ Last(log).kind = "Error"
    /\ Last(log).what = "directory_iterator: cannot open directory"
    /\ \A i \in DOMAIN log : log[i].kind # "Created"
    /\ Pages = {}
    /\ removed = {}

\* C12 witness: the enumeration of a directory two levels below the root
\* failed, in a content root that holds eligible files.
C12_Witness ==
  /\ ScanFailed
  /\ Len(Last(log).path) = Len(InputDir) + 2
  /\ fsys.files # {}
  /\ pc = "exit"

\* C13: after a run that ended with exit code 0 and skipped no file, the
\* pages under the output root are exactly relativePath / target name for
\* every file of every node, one page per content file and made from that
\* file, and every directory of the tree exists under the output root.
C13_OutputMirrorsContent ==
  (pc = "exit" /\ exitCode = 0 /\ Faults = 0) =>
    /\ Pages = TargetPaths(rootNode)
    /\ Cardinality(Pages) = Len(FileTasks)
    /\ \A i \in DOMAIN FileTasks :
         /\ TaskTarget(FileTasks[i]) \in Pages
         /\ outFS[TaskTarget(FileTasks[i])].src =
              InputDir \o FileTasks[i].relativePath \o <<FileTasks[i].file>>
    /\ \A n \in Nodes(rootNode) :
         /\ n.relativePath \in DOMAIN outFS
         /\ outFS[n.relativePath].kind = "dir"

\* C13 witness: a run without failures over a tree with a page two levels
\* below the root and a directory without eligible files.
C13_Witness ==
  /\ pc = "exit" /\ exitCode = 0 /\ Faults = 0
  /\ \E p \in Pages : Len(p) = 3
  /\ \E n \in Nodes(rootNode) : n.files = << >> /\ n.relativePath # << >>

\* C14: the files of a built tree have pairwise different output paths,
\* with ".md" and ".htm" accepted or ".md" alone, and no two pages written
\* in a run were written to the same path.
C14_TargetPathsAreDistinct ==
  rootNode # NoNode =>
    /\ \A i, j \in DOMAIN FileTasks :
         i # j => TaskTarget(FileTasks[i]) # TaskTarget(FileTasks[j])
    /\ \A i, j \in DOMAIN log :
         (i # j /\ log[i].kind = "Created" /\ log[j].kind = "Created") =>
           log[i].path # log[j].path

\* C14 witness: a header/footer run wrote the pages of "a.md" and "a.htm",
\* two files of one directory with the same stem.
C14_Witness ==
  /\ variant = "headerfooter"
  /\ pc = "exit" /\ exitCode = 0
  /\ \E i, j \in DOMAIN FileTasks :
       /\ FileTasks[i].relativePath = FileTasks[j].relativePath
       /\ FileTasks[i].file = <<"a", ".", "m", "d">>
       /\ FileTasks[j].file = <<"a", ".", "h", "t", "m">>
       /\ { TaskTarget(FileTasks[i]), TaskTarget(FileTasks[j]) } \subseteq Pages

\* the directories whose entry in the navigation carries the active marker:
\* a heading that has it, or the single link a directory is collapsed to
ActiveDirs(nav) ==
  { h \in NavOf(nav).headings :
      \E i \in DOMAIN nav :
        nav[i].tag = "strong" /\ nav[i].text = Last(h) /\ nav[i].active }
  \cup { Append(l.at, l.text) :
           l \in { k \in NavOf(nav).links :
                     k.active /\ Append(k.at, k.text) \in CollapsedDirs(nav) } }

\* C15: in the navigation of every page the link of the page is marked
\* active, and so is the entry of every directory on the path from the root
\* to the page.
C15_ParentFoldersAreActive ==
  \A p \in Pages :
    LET nav == outFS[p].navigation
    IN /\ \E l \in NavOf(nav).links : l.active /\ l.target = p
       /\ \A k \in 1..(Len(p) - 1) : SubSeq(p, 1, k) \in ActiveDirs(nav)

\* the phases of main5's main, each with the one that follows it
PhaseOrder ==
  { <<"parse", "inputs">>, <<"inputs", "scan">>, <<"scan", "clean">>,
    <<"clean", "assets">>, <<"assets", "template">>, <<"template", "process">>,
    <<"process", "exit">> }

AssetEntries(out) == { p \in DOMAIN out : out[p].kind = "asset" }
PageEntries(out) == { p \in DOMAIN out : out[p].kind = "page" }

\* C16: in the template variant with assets every step of a run either
\* stays in its phase, moves to the next phase in the order parse
\* configuration, (check inputs,) build tree, clean output, copy assets, load
\* template, process files, or ends the run with exit code 1; each phase's
\* effect happens in that phase only: the configuration is set while
\* parsing, the tree while scanning, the output root is emptied while
\* cleaning, assets appear while copying, and pages are written only while
\* processing files, after the template was loaded; exit code 0 is reached
\* from the processing phase with nothing left to do.
C16_PhasesInOrder ==
  [][variant = "assets" =>
       /\ pc' # pc => (<<pc, pc'>> \in PhaseOrder \/ (pc' = "exit" /\ exitCode' = 1))
       /\ (pc' = "exit" /\ exitCode' = 0 /\ pc # "exit") =>
            (pc = "process" /\ work = << >>)
       /\ cfg' # cfg => pc = "parse"
       /\ rootNode' # rootNode => pc = "scan"
       /\ removed' # removed => pc = "clean"
       /\ outFS' # outFS => pc \in { "clean", "assets", "process" }
       /\ AssetEntries(outFS') # AssetEntries(outFS) => pc = "assets"
       /\ (\E p \in PageEntries(outFS') :
             p \notin PageEntries(outFS) \/ outFS'[p] # outFS[p]) =>
            pc = "process"
       /\ work' # work => pc \in { "template", "process" }]_vars

\* C16 witness: a run of the variant with assets ended with exit code 0,
\* with assets copied and pages written.
C16_Witness ==
  /\ variant = "assets"
  /\ pc = "exit" /\ exitCode = 0
  /\ AssetEntries(outFS) # {}
  /\ \E p \in Pages : Len(p) > 1

AssetLines == { "No assets folder found", "Assets successfully copied",
                "Error copying assets" }

\* C17: copyAssets always returns to main, which goes on to load the
\* template, and never sets an exit code; it reports what it did; when
\* there is no assets folder it leaves the output root as it is; when the
\* copy fails it reports the error and touches no page.
C17_AssetCopyIsNeverFatal ==
  [][pc = "assets" =>
       /\ pc' = "template"
       /\ exitCode' = -1
       /\ Len(log') = Len(log) + 1
       /\ log'[Len(log')].kind \in AssetLines
       /\ log'[Len(log')].kind = "No assets folder found" => outFS' = outFS
       /\ log'[Len(log')].kind = "Error copying assets" =>
            /\ log'[Len(log')].what # ""
            /\ PageEntries(outFS') = PageEntries(outFS)
            /\ AssetEntries(outFS') = AssetEntries(outFS)]_vars

\* C17 witness: a run in which copying the assets failed went on, wrote
\* pages and ended with exit code 0.
C17_Witness ==
  /\ pc = "exit" /\ exitCode = 0
  /\ \E i \in DOMAIN log : log[i].kind = "Error copying assets"
  /\ Pages # {}

\* C17 second case: a run without an assets folder went on, wrote pages and
\* ended with exit code 0 with nothing but pages and directories on disk.
C17_WitnessNoAssets ==
  /\ pc = "exit" /\ exitCode = 0
  /\ \E i \in DOMAIN log : log[i].kind = "No assets folder found"
  /\ Pages # {}
  /\ AssetsDir \notin DOMAIN outFS

\* C18: a run that was not aborted ends with a report that states success
\* ("Done") only when no file was skipped; when files were skipped its last
\* message is no statement of success.
C18_FinalReportTellsSkips ==
  (pc = "exit" /\ exitCode = 0) =>
    (Last(log).kind = "Done" => Faults = 0)

\* the nodes the navigation walk reaches: no directory between the root and
\* the node is one with exactly one file
Shown(n) ==
  \A k \in 1..(Len(n.relativePath) - 1) :
    \A m \in Nodes(rootNode) :
      m.relativePath = SubSeq(n.relativePath, 1, k) => Len(m.files) # 1

\* a file name without its ".md" or ".htm"
Label(f) ==
  IF EndsWithMd(f) THEN SubSeq(f, 1, Len(f) - 3) ELSE SubSeq(f, 1, Len(f) - 4)

\* d times "../"
Climb(d) == [k \in 1..(3 * d) |-> UpSegment[((k - 1) % 3) + 1]]

\* "dir/.../name" of a root-relative path
RECURSIVE Slashed(_)
Slashed(path) ==
  IF Len(path) = 1 THEN path[1]
  ELSE path[1] \o <<"/">> \o Slashed(Tail(path))

\* the links the navigation of page p is to hold for the directories with
\* exactly one file, and for the files listed in their node
DirLinks(p) ==
  { [tag |-> "a", text |-> n.dirName,
     href |-> Climb(Len(p) - 1)
                \o Slashed(n.relativePath \o <<getTargetFilename(n.files[1])>>),
     active |-> (n.relativePath \o <<getTargetFilename(n.files[1])>> = p)] :
      n \in { m \in Nodes(rootNode) :
                m.relativePath # << >> /\ Shown(m) /\ Len(m.files) = 1 } }

FileLinks(p) ==
  UNION { { [tag |-> "a", text |-> Label(f),
             href |-> Climb(Len(p) - 1)
                        \o Slashed(n.relativePath \o <<getTargetFilename(f)>>),
             active |-> (n.relativePath \o <<getTargetFilename(f)>> = p)] :
              f \in Range(n.files) } :
          n \in { m \in Nodes(rootNode) :
                    Shown(m) /\ (m.relativePath = << >> \/ Len(m.files) # 1) } }

\* C19: in the navigation of every page, each directory the walk reaches
\* that has exactly one file is one link, labelled with the directory name
\* and pointing at prefix + directory path + "/" + target name of the file,
\* and each file listed in its node is one link labelled with the file name
\* without its extension; the navigation holds no other link.
C19_LinkLabelsAndHrefs ==
  \A p \in Pages :
    LET nav == outFS[p].navigation
        links == { i \in DOMAIN nav : nav[i].tag = "a" }
    IN /\ { nav[i] : i \in links } = DirLinks(p) \cup FileLinks(p)
       /\ Cardinality(links) = Cardinality(DirLinks(p) \cup FileLinks(p))
       /\ \A l \in DirLinks(p) : \A i \in links :
            nav[i].href = l.href => nav[i].text = l.text

\* C19 witness: a page below the root whose navigation holds the link of a
\* directory with one file and the links of files listed in the root.
C19_Witness ==
  \E p \in Pages :
    /\ Len(p) = 2
    /\ DirLinks(p) # {}
    /\ \E l \in FileLinks(p) : l.text = <<"a">> /\ ~l.active
    /\ DirLinks(p) \cup FileLinks(p) \subseteq Range(outFS[p].navigation)

\* a subdirectory of n, at any depth, holds eligible files
HasEligibleDescendants(n) ==
  \E m \in Nodes(n) \ { n } : m.files # << >>

\* C20: in every navigation a directory is collapsed to a single link only
\* if it has exactly one file and no subdirectory that holds eligible
\* files; a directory with exactly one file and eligible descendants is not
\* collapsed, and the files of its descendants are linked.
C20_CollapseOnlyWithoutDescendants ==
  \A p \in Pages :
    LET nav == outFS[p].navigation
    IN \A n \in Nodes(rootNode) \ { rootNode } :
         /\ n.relativePath \in CollapsedDirs(nav) =>
              (Len(n.files) = 1 /\ ~HasEligibleDescendants(n))
         /\ (Len(n.files) = 1 /\ HasEligibleDescendants(n)) =>
              /\ n.relativePath \notin CollapsedDirs(nav)
              /\ \A m \in Nodes(n) \ { n } : \A f \in Range(m.files) :
                   \E l \in NavOf(nav).links :
                     l.target = m.relativePath \o <<getTargetFilename(f)>>

\* the items of a navigation in the order they are emitted, each with the
\* directory whose list holds it: the link of a file, or the entry of a
\* directory (a heading, or the single link it is collapsed to)
RECURSIVE NavItems(_, _, _, _)
NavItems(nav, i, stack, pending) ==
  IF i > Len(nav) THEN << >>
  ELSE LET e == nav[i]
           target == Segments(StripClimb(e.href))
       IN IF e.tag = "ul"
          THEN NavItems(nav, i + 1,
                        IF pending = NoString THEN stack ELSE Append(stack, pending),
                        NoString)
          ELSE IF e.tag = "/ul"
          THEN NavItems(nav, i + 1,
                        IF stack = << >> THEN stack ELSE parent_path(stack),
                        NoString)
          ELSE IF e.tag = "strong"
          THEN <<[at |-> stack, kind |-> "dir", name |-> e.text,
                  target |-> << >>, index |-> i]>>
               \o NavItems(nav, i + 1, stack, e.text)
          ELSE IF e.tag = "a"
          THEN <<[at |-> stack,
                  kind |-> IF Len(target) = Len(stack) + 1 THEN "file" ELSE "dir",
                  name |-> e.text, target |-> target, index |-> i]>>
               \o NavItems(nav, i + 1, stack, NoString)
          ELSE NavItems(nav, i + 1, stack, NoString)

\* the file of the node at path at whose page a file link points to
SourceOf(at, target) ==
  { f \in UNION { Range(n.files) : n \in { m \in Nodes(rootNode) : m.relativePath = at } } :
      at \o <<getTargetFilename(f)>> = target }

\* C21: in every list of every navigation the links of the node's files
\* come first, ascending by file name, then the entries of its child
\* directories, ascending by directory name; a directory the walk reaches
\* that holds exactly a.md and b.md and no subdirectory is a heading
\* followed by a list that links a.html, then b.html, and ends.
C21_FilesThenDirectoriesAscending ==
  \A p \in Pages :
    LET nav == outFS[p].navigation
        items == NavItems(nav, 1, << >>, NoString)
    IN /\ \A i, j \in DOMAIN items :
            (i < j /\ items[i].at = items[j].at) =>
              /\ items[i].kind = "dir" => items[j].kind = "dir"
              /\ (items[i].kind = "file" /\ items[j].kind = "file") =>
                   \A f \in SourceOf(items[i].at, items[i].target) :
                     \A g \in SourceOf(items[j].at, items[j].target) :
                       StrLess(f, g)
              /\ (items[i].kind = "dir" /\ items[j].kind = "dir") =>
                   StrLess(items[i].name, items[j].name)
       /\ \A i \in DOMAIN items : items[i].kind = "file" =>
            SourceOf(items[i].at, items[i].target) # {}
       /\ \A n \in Nodes(rootNode) :
            (/\ n.relativePath # << >>
             /\ Shown(n)
             /\ n.subdirs = << >>
             /\ n.files = << <<"a", ".", "m", "d">>, <<"b", ".", "m", "d">> >>) =>
              \E k \in DOMAIN nav :
                /\ k + 4 <= Len(nav)
                /\ nav[k] = Strong(n.dirName)
                /\ nav[k + 1] = UlOpen
                /\ Segments(StripClimb(nav[k + 2].href)) =
                     n.relativePath \o << <<"a", ".", "h", "t", "m", "l">> >>
                /\ Segments(StripClimb(nav[k + 3].href)) =
                     n.relativePath \o << <<"b", ".", "h", "t", "m", "l">> >>
                /\ nav[k + 4] = UlClose

\* C21 witness: a page whose navigation lists two files and two directory
\* entries in the root list.
C21_Witness ==
  \E p \in Pages :
    LET items == NavItems(outFS[p].navigation, 1, << >>, NoString)
    IN /\ Cardinality({ i \in DOMAIN items :
                          items[i].at = << >> /\ items[i].kind = "file" }) >= 2
       /\ Cardinality({ i \in DOMAIN items :
                          items[i].at = << >> /\ items[i].kind = "dir" }) >= 2

\* a navigation without what may differ from page to page: the climb
\* prefix of the hrefs and the active marker
Shape(nav) ==
  [i \in DOMAIN nav |->
     [tag |-> nav[i].tag, text |-> nav[i].text,
      target |-> StripClimb(nav[i].href)]]

\* C22: the navigation of every page is the one generated from the root of
\* the tree: all pages of a run show the same sequence of entries, link
\* targets and labels, and every href of a page is the page's climb prefix
\* followed by the root-relative target.
C22_NavigationIsGlobal ==
  \A p \in Pages :
    LET nav == outFS[p].navigation
    IN /\ Shape(nav) = Shape(generateNavHtml(rootNode, << >>, NoPath))
       /\ \A q \in Pages : Shape(outFS[q].navigation) = Shape(nav)
       /\ \A i \in DOMAIN nav : nav[i].tag = "a" =>
            nav[i].href = Climb(Len(p) - 1) \o StripClimb(nav[i].href)

\* C22 witness: pages of the root and of a subdirectory with more than one
\* file were written, with three links or more in the navigation.
C22_Witness ==
  \E p, q \in Pages :
    /\ Len(p) = 1
    /\ Len(q) = 2
    /\ \E n \in Nodes(rootNode) : n.relativePath = SubSeq(q, 1, 1) /\ Len(n.files) >= 2
    /\ Cardinality({ i \in DOMAIN outFS[q].navigation :
                       outFS[q].navigation[i].tag = "a" }) >= 3

\* the name ends in ext and has something before it
HasSuffix(f, ext) ==
  Len(f) > Len(ext) /\ SubSeq(f, Len(f) - Len(ext) + 1, Len(f)) = ext

\* the regular files of directory d that a variant is to keep
Eligible(fs, d, v) ==
  { filename(f) : f \in { g \in fs.files :
      /\ parent_path(g) = d
      /\ \/ HasSuffix(filename(g), ExtMd)
         \/ (v = "headerfooter" /\ HasSuffix(filename(g), ExtHtm)) } }

\* C23: the tree has exactly one node per directory of the content root,
\* with or without eligible files, each the child of its parent directory's
\* node; a node's files are exactly the regular files of its directory
\* whose extension is ".md", or ".htm" in the header/footer variant; entries
\* that are neither directories nor regular files are in no node.
C23_TreeMembership ==
  pc = "scanned" =>
    /\ Cardinality(Nodes(rootNode)) = Cardinality(fsys.dirs)
    /\ \A d \in fsys.dirs :
         \E n \in Nodes(rootNode) :
           /\ InputDir \o n.relativePath = d
           /\ n.dirName = filename(d)
           /\ Range(n.files) = Eligible(fsys, d, variant)
           /\ Len(n.files) = Cardinality(Eligible(fsys, d, variant))
           /\ { InputDir \o n.subdirs[i].relativePath : i \in DOMAIN n.subdirs } =
                { c \in fsys.dirs : Len(c) = Len(d) + 1 /\ parent_path(c) = d }
           /\ Len(n.subdirs) =
                Cardinality({ c \in fsys.dirs : Len(c) = Len(d) + 1 /\ parent_path(c) = d })

\* C23 witness: the header/footer variant scanned a root directory holding
\* a.htm, a.html, an entry named b.md that is no regular file, and a
\* subdirectory without any file.
C23_Witness ==
  /\ pc = "scanned"
  /\ variant = "headerfooter"
  /\ InputDir \o << <<"a", ".", "h", "t", "m">> >> \in fsys.files
  /\ InputDir \o << <<"a", ".", "h", "t", "m", "l">> >> \in fsys.files
  /\ InputDir \o << <<"b", ".", "m", "d">> >> \in fsys.others
  /\ \E d \in fsys.dirs : d # InputDir /\ \A f \in fsys.files : parent_path(f) # d
  /\ rootNode.files = << <<"a", ".", "h", "t", "m">> >>

\* C24: in the header/footer variant a page's content went through the
\* Markdown converter exactly when its source file's name ends in ".md"; a
\* page made from a ".htm" file holds the file's content as it is and has
\* the source file's own name and place.
C24_OnlyMdIsRendered ==
  variant = "headerfooter" =>
    \A p \in Pages :
      /\ outFS[p].rendered <=> HasSuffix(filename(outFS[p].src), ExtMd)
      /\ HasSuffix(filename(outFS[p].src), ExtHtm) =>
           /\ ~outFS[p].rendered
           /\ InputDir \o p = outFS[p].src

\* C24 witness: a header/footer run is done and wrote a page from a ".htm"
\* file and a page from a ".md" file.
C24_Witness ==
  /\ variant = "headerfooter"
  /\ pc = "exit" /\ exitCode = 0
  /\ \E p, q \in Pages :
       /\ HasSuffix(filename(outFS[p].src), ExtHtm) /\ ~outFS[p].rendered
       /\ HasSuffix(filename(outFS[q].src), ExtMd) /\ outFS[q].rendered

\* positions of a heading item whose nested list is opened and closed at once
EmptyLists(nav) ==
  { i \in 1..(Len(nav) - 3) :
      /\ nav[i].tag = "strong"
      /\ nav[i + 1] = UlOpen
      /\ nav[i + 2] = UlClose
      /\ nav[i + 3] = LiClose }

\* the directories the walk reaches that hold no eligible file and no
\* subdirectory
EmptyDirs ==
  { n \in Nodes(rootNode) \ { rootNode } :
      Shown(n) /\ n.files = << >> /\ n.subdirs = << >> }

\* C25: the navigation of every written page shows each directory the walk
\* reaches that has no eligible file and no subdirectory as a heading with
\* the directory's name followed by a nested list that is opened and closed
\* at once, and shows nothing else that way; a run whose tree has such
\* directories and meets no failure ends with exit code 0 and every page
\* written.
C25_EmptyDirectoryIsEmptyList ==
  /\ \A p \in Pages :
       LET nav == outFS[p].navigation
       IN /\ \A n \in EmptyDirs : n.relativePath \in NavOf(nav).nested
          /\ \A name \in { nav[i].text : i \in EmptyLists(nav) }
                         \cup { n.dirName : n \in EmptyDirs } :
               Cardinality({ i \in EmptyLists(nav) : nav[i].text = name }) =
                 Cardinality({ n \in EmptyDirs : n.dirName = name })
  /\ (pc = "exit" /\ exitCode = 0 /\ Faults = 0) =>
       TargetPaths(rootNode) \subseteq Pages

\* C25 witness: a run is done with exit code 0, its tree has a directory
\* without files and subdirectories, and a written page shows it as a
\* heading with an empty nested list.
C25_Witness ==
  /\ pc = "exit" /\ exitCode = 0
  /\ EmptyDirs # {}
  /\ \E p \in Pages : EmptyLists(outFS[p].navigation) # {}

\* C25 as stated for every directory of the tree: each directory without
\* eligible files and subdirectories is a heading with a nested list in the
\* navigation of every page.
C25_EveryEmptyDirectoryIsEmptyList ==
  \A p \in Pages :
    \A n \in Nodes(rootNode) \ { rootNode } :
      (n.files = << >> /\ n.subdirs = << >>) =>
        n.relativePath \in NavOf(outFS[p].navigation).nested

\* the output paths the links of page p lead to
LinkedFrom(p) ==
  { Resolve(p, outFS[p].navigation[i].href).path :
      i \in { k \in DOMAIN outFS[p].navigation :
                /\ outFS[p].navigation[k].tag = "a"
                /\ Resolve(p, outFS[p].navigation[k].href).ok } }

\* a directory strictly between the root and directory rel holds exactly one
\* eligible file
BelowSingleFileDir(rel) ==
  \E k \in 1..(Len(rel) - 1) :
    Cardinality(Eligible(fsys, InputDir \o SubSeq(rel, 1, k), variant)) = 1

\* the files of the content root, as root-relative directory and name
ContentFiles ==
  UNION { { [dir |-> n.relativePath, file |-> f] : f \in Range(n.files) } :
          n \in Nodes(rootNode) }

OutputTouched == removed # {} \/ outFS \notin { NoOutput, StaleOutput }

\* the run reported a failure of configuration parsing, of the header or
\* footer read, of the input folder or template check, or of the tree build
EarlyFailure ==
  \E i \in DOMAIN log :
    /\ log[i].kind = "Error"
    /\ \/ log[i].what \in { "Configuration file not found.",
                            "Input folder does not exist.",
                            "Template file does not exist.",
                            "directory_iterator: cannot open directory" }
       \/ /\ log[i].what = "Could not read file"
          /\ log[i].path \in { cfg.headerPath, cfg.footerPath }

\* C27: while the run parses the configuration, checks its inputs (or reads
\* header and footer) and builds the tree, and after any of these failed,
\* nothing of the previous output root is deleted or written; when the
\* output root has been deleted or written, the configuration was parsed,
\* the paths the variant needs were set, and the tree is the complete tree
\* of the content root.
C27_OutputDeletedOnlyAfterChecks ==
  /\ (pc \in { "parse", "inputs", "scan" } \/ EarlyFailure) => ~OutputTouched
  /\ OutputTouched =>
       /\ cfgFile # << >>
       /\ cfg = parseConfig(cfgFile, variant)
       /\ variant = "headerfooter" => (cfg.headerPath # << >> /\ cfg.footerPath # << >>)
       /\ variant # "headerfooter" => cfg.templatePath # << >>
       /\ fsys \in FileSystems
       /\ \E ord \in IterOrders :
            rootNode = buildTree(fsys, InputDir, InputDir, variant, ord)

\* C27 witness: a previous output existed and the run ended with exit code 1
\* because the tree build failed; the previous output is all there.
C27_Witness ==
  /\ pc = "exit" /\ exitCode = 1
  /\ log # << >>
  /\ Last(log).what = "directory_iterator: cannot open directory"
  /\ outFS = StaleOutput /\ StaleOutput # NoOutput
  /\ removed = {}

\* a run with a previous output got past the checks and deleted it
C27_WitnessDeleted ==
  /\ removed = DOMAIN StaleOutput
  /\ removed # {}
  /\ rootNode # NoNode

\* the links of the navigation that stand for a directory with one file
CollapsedLinks(nav) ==
  { i \in DOMAIN nav :
      /\ nav[i].tag = "a"
      /\ \E n \in Nodes(rootNode) \ { rootNode } :
           /\ Len(n.files) = 1
           /\ nav[i].text = n.dirName
           /\ nav[i].href = backPrefix
                \o Slashed(n.relativePath \o <<getTargetFilename(n.files[1])>>) }

\* C28: whatever tree buildTree returned and whatever path is given as
\* activeTargetFile, output path of a file of the tree or not, the generated
\* navigation has at most one link marked active, that link points at
\* activeTargetFile, and never are a link of a file and a link of a
\* directory with one file both marked active.
C28_AtMostOneActiveLink ==
  pc = "rendered" =>
    /\ Cardinality(ActiveLinks(navHtml)) <= 1
    /\ \A i \in ActiveLinks(navHtml) :
         /\ currentPath # << >>
         /\ navHtml[i].href = backPrefix \o Slashed(currentPath)
    /\ \A i \in ActiveLinks(navHtml) \cap CollapsedLinks(navHtml) :
         \A j \in ActiveLinks(navHtml) : j = i
    /\ currentPath \notin TargetPaths(rootNode) => ActiveLinks(navHtml) = {}

\* C28 witness: activeTargetFile is the page of the only file of a
\* directory, the root holds a file of the same name, and the one active
\* link is the directory's.
C28_Witness ==
  /\ pc = "rendered"
  /\ currentPath = << <<"G">>, <<"a", ".", "h", "t", "m", "l">> >>
  /\ rootNode.files = << <<"a", ".", "m", "d">> >>
  /\ Cardinality(ActiveLinks(navHtml)) = 1
  /\ ActiveLinks(navHtml) \subseteq CollapsedLinks(navHtml)

\* activeTargetFile names no file of the tree and no link is active
C28_WitnessNoFile ==
  /\ pc = "rendered"
  /\ currentPath \notin TargetPaths(rootNode)
  /\ Cardinality({ i \in DOMAIN navHtml : navHtml[i].tag = "a" }) >= 2
  /\ ActiveLinks(navHtml) = {}

\* the requests for the listing of a year directory, and for a file
ListingRequests == SelectSeq(fsys, LAMBDA q : Len(q.url) = 2)
FileRequests == SelectSeq(fsys, LAMBDA q : Len(q.url) = 3)

Urls(requests) == [i \in DOMAIN requests |-> requests[i].url]

\* the paths of the report's lines of one kind, in order
Reported(kind) ==
  LET lines == SelectSeq(log, LAMBDA l : l.kind = kind)
  IN [i \in DOMAIN lines |-> lines[i].path]

\* the year directories among the elements of docs/
YearDirs(items) ==
  SelectSeq(items, LAMBDA e :
    e.is_object /\ e.type = "dir" /\ e.name \in { Year2024, Year2025 })

\* the Markdown files among the elements of a year directory
MdFiles(items) ==
  SelectSeq(items, LAMBDA e :
    e.is_object /\ e.type = "file"
      /\ e.name \in { <<"a", ".", "m", "d">>, <<"b", ".", "m", "d">> })

\* the paths of the Markdown files of the listings that arrived, in order
RECURSIVE ListedFiles(_)
ListedFiles(requests) ==
  IF requests = << >> THEN << >>
  ELSE (IF Head(requests).reply.has_value /\ Head(requests).reply.body = "array"
        THEN [i \in DOMAIN MdFiles(Head(requests).reply.items) |->
                MdFiles(Head(requests).reply.items)[i].path]
        ELSE << >>)
       \o ListedFiles(Tail(requests))

Unanswered(requests) == SelectSeq(requests, LAMBDA q : ~q.reply.has_value)

SettingsMissing ==
  \E k \in { "GITHUB_USER", "GITHUB_REPO", "GITHUB_TOKEN" } :
    k \notin DOMAIN cfgFile \/ cfgFile[k] = ""

DocsListingFailed ==
  /\ fsys # << >>
  /\ ~fsys[1].reply.has_value \/ fsys[1].reply.body # "array"

\* C29: the fetcher returns 1 exactly when a setting among GITHUB_USER,
\* GITHUB_REPO and GITHUB_TOKEN is missing or empty or the listing of docs/
\* did not arrive as an array, and then it has requested no year directory
\* and no file and processed none; a run that returns 0 has requested the
\* listing of every year directory of docs/ in order, has requested and
\* processed every Markdown file of every listing that arrived, in order,
\* and has reported exactly the listings and the files whose request
\* failed; a failed request alone never ends the run otherwise.
C29_FetchFailureSkipsOnlyThatEntry ==
  /\ exitCode \in { -1, 0, 1 }
  /\ exitCode = 1 =>
       /\ pc = "exit"
       /\ SettingsMissing \/ DocsListingFailed
       /\ Len(fsys) <= 1
       /\ Reported("Processing") = << >>
  /\ (pc # "env" /\ SettingsMissing) => (exitCode = 1 /\ fsys = << >>)
  /\ DocsListingFailed => exitCode = 1
  /\ (pc = "exit" /\ exitCode = 0) =>
       /\ ~SettingsMissing
       /\ Urls(ListingRequests) =
            [i \in DOMAIN YearDirs(fsys[1].reply.items) |->
               <<Docs, YearDirs(fsys[1].reply.items)[i].name>>]
       /\ Urls(FileRequests) = ListedFiles(ListingRequests)
       /\ Reported("Processing") = ListedFiles(ListingRequests)
       /\ Reported("Could not fetch directory") = Urls(Unanswered(ListingRequests))
       /\ Reported("Could not fetch file metadata") = Urls(Unanswered(FileRequests))
       /\ Last(log).kind = "All files processed."
  /\ pc = "terminated" =>
       \E i \in DOMAIN fsys : \E j \in DOMAIN fsys[i].reply.items :
         fsys[i].reply.items[j] = IllTyped

\* C29 witness: the run returned 0; the listing of the first year directory
\* failed and the second was listed; the metadata of its first file failed
\* and its second file was processed to the end.
C29_Witness ==
  /\ pc = "exit" /\ exitCode = 0
  /\ Len(ListingRequests) = 2
  /\ ~ListingRequests[1].reply.has_value
  /\ Len(FileRequests) = 2
  /\ ~FileRequests[1].reply.has_value
  /\ Reported("Fields") = << FileRequests[2].url >>

\* a setting is missing and the run returned 1 without any request
C29_WitnessMissingSetting ==
  /\ pc = "exit" /\ exitCode = 1
  /\ SettingsMissing
  /\ fsys = << >>

\* the accumulator of base64_encode after the last byte
Accumulator(in) == encodeLoop(in, 1, 0, -6, << >>).val

\* the number n as bits binary digits, the highest first
Bits(n, bits) == [k \in 1..bits |-> (n \div (2 ^ (bits - k))) % 2]

\* the bits of all numbers of a sequence, one after the other
RECURSIVE BitString(_, _)
BitString(seq, bits) ==
  IF seq = << >> THEN << >>
  ELSE Bits(Head(seq), bits) \o BitString(Tail(seq), bits)

\* the Base64 text without its trailing "="
Unpadded(text) == SelectSeq(text, LAMBDA c : c # "=")

\* C30: for every byte string s, base64_decode(base64_encode(s)) is s, also
\* when s is longer than three bytes and the int accumulators have lost
\* their upper bits and turned negative; base64_encode(s) has a length that
\* is a multiple of 4, holds only characters of the Base64 alphabet followed
\* by at most two "=", and its characters carry the bits of s, six at a
\* time, filled up with zeros.
C30_Base64RoundTrip ==
  /\ pc \in { "decode", "decoded" } =>
       LET bits == BitString(sourceFile, 8)
           text == Unpadded(targetFile)
           filled == bits \o [k \in 1..((6 - (Len(bits) % 6)) % 6) |-> 0]
       IN /\ Len(targetFile) % 4 = 0
          /\ Len(targetFile) = 4 * ((Len(sourceFile) + 2) \div 3)
          /\ Len(targetFile) - Len(text) <= 2
          /\ \A i \in DOMAIN targetFile :
               (targetFile[i] = "=") <=> (i > Len(text))
          /\ \A i \in DOMAIN text : T(text[i]) # -1
          /\ BitString([i \in DOMAIN text |-> T(text[i])], 6) = filled
  /\ pc = "decoded" => backPrefix = sourceFile

\* C30 witness: a string of more than four bytes whose accumulator ended
\* negative went through both functions and came back.
C30_Witness ==
  /\ pc = "decoded"
  /\ Len(sourceFile) > 4
  /\ Accumulator(sourceFile) < 0
  /\ sourceFile[1] = 255
  /\ backPrefix = sourceFile

====
